---- MODULE Spec2Model ----
(***************************************************************************)
(* A model of topolith: the World (Items map, Rels map, containment Tree), *)
(* the Command variants with their Execute/Undo, and the App's command log *)
(* with its cursor (exec / undo / redo).                                   *)
(*                                                                         *)
(* Go values are modelled as follows.                                      *)
(*  - A pointer is a sequence: <<>> is nil and <<v>> points to v.          *)
(*  - An error is a record [Code, Message]; NoErr (Code 0) is nil.         *)
(*  - The Tree is a heap of nodes.  AddOrMove and Delete only ever add to  *)
(*    a components set a node that was found from the root (or a new one), *)
(*    so a node that is no longer reachable from the root never becomes    *)
(*    reachable again, and a new node for an id is made only when no       *)
(*    reachable node has that id.  The heap is therefore kept up to        *)
(*    garbage collection: the reachable nodes are keyed by their Item id   *)
(*    (the root sentinel by ""), and a parent pointer to a node that is no *)
(*    longer reachable keeps that node's Item id with live = FALSE (the    *)
(*    only thing the code can still read from it is Parent().Item().Id).   *)
(*  - mapset.Set iterates in an unspecified order, so a recursive search   *)
(*    of a structure with a cycle may or may not recurse forever before it *)
(*    finds its target; div carries that through a chain of calls          *)
(*    (0 terminates, 1 may overflow the stack, 2 must).                    *)
(***************************************************************************)
EXTENDS Integers, Sequences, FiniteSets, TLC

VARIABLES world, commands, commandsIdx, fault, ret, phase, g0, g1, applied, calls

vars == <<world, commands, commandsIdx, fault, ret, phase, g0, g1, applied, calls>>

(* ----------------------------- bounds ---------------------------------- *)

\* The number of calls of the App a behaviour explores.
MaxCalls == 4

\* The number of direct calls of the World a behaviour explores.
MaxWorldCalls == 5

\* The number of calls a behaviour explores when the App is used and the World
\* is also called directly.
MaxBothCalls == 4

\* The number of direct calls a behaviour explores when the World's Rel
\* queries are among them.
MaxQueryCalls == 5

\* The number of calls of the App a behaviour explores on the inputs of the
\* worked examples: those that create and delete Items and Rels, and those with
\* Item parameters and nesting.
MaxScenarioCalls == 6

MaxParamCalls == 4

MaxAskCalls == 4

\* The Item ids the inputs range over.
Ids == {"a", "b", "c"}

(* ------------------------------ errors --------------------------------- *)

TopolithErrorInvalid == 400
TopolithErrorNotFound == 404
TopolithErrorConflict == 409
TopolithErrorCommandErr == 450
TopolithErrorInternal == 500
TopolithErrorBadSyncState == 502
TopolithErrorMultiple == 600

NoErr == [Code |-> 0, Message |-> ""]

\* errors.New(text): code Internal until UseCode replaces it.
New(text) == [Code |-> TopolithErrorInternal, Message |-> text]

UseCode(e, code) == [e EXCEPT !.Code = code]

\* errors.Join(errs...)
Join(errs) == UseCode(New("multiple errors"), TopolithErrorMultiple)

(* ----------------------------- pointers -------------------------------- *)

Nil == <<>>

Ptr(v) == <<v>>

Deref(p) == p[1]

(* ------------------------------- Items --------------------------------- *)

\* Item{Id: id}: every other field has Go's zero value.
Item(id) ==
  [Id |-> id, External |-> FALSE, Type |-> 0, Name |-> "",
   Mechanism |-> "", Expanded |-> ""]

\* ItemParams{}: every field nil.
ItemParams == [External |-> Nil, Type |-> Nil, Name |-> Nil, Mechanism |-> Nil, Expanded |-> Nil]

ItemTypeNames ==
  <<"person", "database", "queue", "blobstore", "browser", "mobile",
    "server", "device", "code">>

StringFromItemType(t) ==
  IF t \in 1..Len(ItemTypeNames) THEN ItemTypeNames[t] ELSE ""

\* strconv.Itoa on the integers the model uses: the canonical decimal text.
ItoaTable ==
  [n \in -1..10 |->
     CASE n = -1 -> "-1" [] n = 0 -> "0" [] n = 1 -> "1" [] n = 2 -> "2"
       [] n = 3 -> "3" [] n = 4 -> "4" [] n = 5 -> "5" [] n = 6 -> "6"
       [] n = 7 -> "7" [] n = 8 -> "8" [] n = 9 -> "9" [] n = 10 -> "10"]

\* strconv.Atoi on the strings the model uses: every base-10 integer text
\* converts, canonical or not (a sign, leading zeros); a type name or the
\* empty string is a syntax error.
AtoiTable ==
  [s \in {ItoaTable[n] : n \in DOMAIN ItoaTable} \cup {"+3", "007"} |->
     CASE s = "+3" -> 3
       [] s = "007" -> 7
       [] OTHER -> CHOOSE n \in DOMAIN ItoaTable : ItoaTable[n] = s]

AtoiOk(s) == s \in DOMAIN AtoiTable

Atoi(s) == AtoiTable[s]

Itoa(n) == ItoaTable[n]

\* itemSet: apply the non-nil params; a type that is no integer is an error,
\* and the other fields are set all the same.
itemSet(item, params) ==
  LET i1 == IF params.Name /= Nil THEN [item EXCEPT !.Name = Deref(params.Name)] ELSE item
      i2 == IF params.Expanded /= Nil THEN [i1 EXCEPT !.Expanded = Deref(params.Expanded)] ELSE i1
      i3 == IF params.External /= Nil THEN [i2 EXCEPT !.External = Deref(params.External)] ELSE i2
      typeOk == params.Type = Nil \/ AtoiOk(Deref(params.Type))
      i4 == IF params.Type /= Nil /\ typeOk
            THEN [i3 EXCEPT !.Type = Atoi(Deref(params.Type))] ELSE i3
      i5 == IF params.Mechanism /= Nil THEN [i4 EXCEPT !.Mechanism = Deref(params.Mechanism)] ELSE i4
  IN [item |-> i5,
      err |-> IF typeOk THEN NoErr
              ELSE UseCode(New("error setting Item params"), TopolithErrorConflict)]

equalItemParams(existing, params) ==
  IF \/ (params.Name /= Nil /\ Deref(params.Name) /= existing.Name)
     \/ (params.Expanded /= Nil /\ Deref(params.Expanded) /= existing.Expanded)
     \/ (params.External /= Nil /\ Deref(params.External) /= existing.External)
     \/ (params.Type /= Nil /\ Itoa(existing.Type) /= Deref(params.Type))
     \/ (params.Mechanism /= Nil /\ Deref(params.Mechanism) /= existing.Mechanism)
  THEN UseCode(New("parameter mismatch"), TopolithErrorConflict)
  ELSE NoErr

ItemEqual(i1, i2) ==
  /\ i1.Id = i2.Id
  /\ i1.External = i2.External
  /\ i1.Type = i2.Type
  /\ i1.Name = i2.Name
  /\ i1.Mechanism = i2.Mechanism
  /\ i1.Expanded = i2.Expanded

(* -------------------------------- Rels --------------------------------- *)

RelIdSeparator == "::"

relIdFromIds(fromId, toId) == fromId \o RelIdSeparator \o toId

\* Rel{From: from, To: to}: the endpoints are copies of the Items.
Rel(from, to) ==
  [From |-> from, To |-> to, Verb |-> "", Mechanism |-> "", Async |-> FALSE, Expanded |-> ""]

RelParams == [Verb |-> Nil, Mechanism |-> Nil, Async |-> Nil, Expanded |-> Nil]

relId(r) == relIdFromIds(r.From.Id, r.To.Id)

relSet(rel, params) ==
  LET r1 == IF params.Verb /= Nil THEN [rel EXCEPT !.Verb = Deref(params.Verb)] ELSE rel
      r2 == IF params.Mechanism /= Nil THEN [r1 EXCEPT !.Mechanism = Deref(params.Mechanism)] ELSE r1
      r3 == IF params.Async /= Nil THEN [r2 EXCEPT !.Async = Deref(params.Async)] ELSE r2
      r4 == IF params.Expanded /= Nil THEN [r3 EXCEPT !.Expanded = Deref(params.Expanded)] ELSE r3
  IN r4

equalRelParams(existing, params) ==
  IF \/ (params.Verb /= Nil /\ Deref(params.Verb) /= existing.Verb)
     \/ (params.Mechanism /= Nil /\ Deref(params.Mechanism) /= existing.Mechanism)
     \/ (params.Async /= Nil /\ Deref(params.Async) /= existing.Async)
     \/ (params.Expanded /= Nil /\ Deref(params.Expanded) /= existing.Expanded)
  THEN UseCode(New("parameter mismatch"), TopolithErrorConflict)
  ELSE NoErr

RelEqual(r1, r2) ==
  /\ ItemEqual(r1.From, r2.From)
  /\ ItemEqual(r1.To, r2.To)
  /\ r1.Verb = r2.Verb
  /\ r1.Mechanism = r2.Mechanism
  /\ r1.Async = r2.Async
  /\ r1.Expanded = r2.Expanded

(* -------------------------------- Tree --------------------------------- *)

\* The key of the root sentinel (its Item() is Item{}, whose Id is "").
RootId == ""

\* newTree(item, parent): item and parent are pointers.
newTree(item, parent) == [item |-> item, parent |-> parent, components |-> {}]

\* A pointer to the reachable node with key k.
NodeRef(k) == Ptr([id |-> k, live |-> TRUE])

RECURSIVE ReachFrom(_, _, _, _)
\* The nodes a walk along components edges visits from frontier, never
\* entering a node of avoid.
ReachFrom(T, frontier, seen, avoid) ==
  IF frontier = {} THEN seen
  ELSE LET next == (UNION {T[k].components : k \in frontier}) \ (seen \cup frontier \cup avoid)
       IN ReachFrom(T, next, seen \cup frontier, avoid)

Reach(T, start) == ReachFrom(T, {start}, {}, {})

\* Some node of S is reachable from itself through components edges in S.
CycleIn(T, S) ==
  \E n \in S : n \in ReachFrom(T, T[n].components \cap S, {}, DOMAIN T \ S)

\* Whether the recursion of a search for id from start terminates: the search
\* stops at the node with that id, and walks the components of every other
\* node in an unspecified order.
SearchDiv(T, start, id) ==
  LET searched == IF start = id THEN {} ELSE ReachFrom(T, {start}, {}, {id})
  IN IF ~CycleIn(T, searched) THEN 0
     ELSE IF id \in Reach(T, start) THEN 1 ELSE 2

\* Drop the nodes that are no longer reachable from the root; a parent pointer
\* to such a node keeps the id of its Item.
Normalise(T) ==
  LET live == Reach(T, RootId)
  IN [k \in live |->
        [T[k] EXCEPT !.parent =
           IF @ /= Nil /\ Deref(@).live /\ Deref(@).id \notin live
           THEN Ptr([id |-> Deref(@).id, live |-> FALSE]) ELSE @]]

\* t.Item()
TreeItem(T, t) == IF T[t].item = Nil THEN Item("") ELSE Deref(T[t].item)

\* t.Parent().Item().Id: "" for the root (emptyTree) and for a child whose
\* parent pointer is the root.
ParentItemId(T, t) == IF T[t].parent = Nil THEN "" ELSE Deref(T[t].parent).id

RECURSIVE Root(_, _)
Root(T, t) ==
  IF T[t].parent = Nil THEN t
  ELSE IF Deref(T[t].parent).live THEN Root(T, Deref(T[t].parent).id)
  ELSE RootId

\* t.Has(id, strict): with strict only this node is looked at.
Has(T, t, id, strict) ==
  LET inThisNode == T[t].item /= Nil /\ Deref(T[t].item).Id = id
  IN IF id = "" THEN [ok |-> FALSE, div |-> 0]
     ELSE IF inThisNode \/ strict THEN [ok |-> inThisNode, div |-> 0]
     ELSE [ok |-> id \in Reach(T, t), div |-> SearchDiv(T, t, id)]

\* t.Find(id): the node is named by its key.
Find(T, t, id) ==
  IF id = "" THEN [ok |-> FALSE, node |-> RootId, div |-> 0]
  ELSE [ok |-> id \in Reach(T, t) /\ id /= RootId, node |-> id, div |-> SearchDiv(T, t, id)]

\* t.AddOrMove(item).  The node that is moved keeps its parent pointer.
AddOrMove(T, t, item) ==
  LET found(f) ==
        LET p == T[f.node].parent
            removed == IF Deref(p).live
                       THEN [T EXCEPT ![Deref(p).id].components = @ \ {f.node}] ELSE T
            moved == [removed EXCEPT ![t].components = @ \cup {f.node}]
            itemTree == newTree(Ptr(item), NodeRef(t))
            added == [k \in DOMAIN T \cup {item.Id} |->
                        IF k = item.Id THEN itemTree
                        ELSE IF k = t THEN [T[k] EXCEPT !.components = @ \cup {item.Id}]
                        ELSE T[k]]
        IN [tree |-> Normalise(IF f.ok THEN moved ELSE added), div |-> f.div]
  IN IF Has(T, t, item.Id, TRUE).ok THEN [tree |-> T, div |-> 0]
     ELSE found(Find(T, Root(T, t), item.Id))

\* t.Delete(id), t the root: the node leaves the components of the node its
\* parent pointer names, which also receives its components.
TreeDelete(T, t, id) ==
  LET found(f) ==
        LET p == T[f.node].parent
            foundComponents == T[f.node].components
            removed == IF Deref(p).live
                       THEN [T EXCEPT ![Deref(p).id].components =
                                          (@ \ {f.node}) \cup foundComponents]
                       ELSE T
        IN IF ~f.ok THEN [tree |-> T, div |-> f.div]
           ELSE [tree |-> Normalise(removed), div |-> f.div]
  IN IF id = "" THEN [tree |-> T, div |-> 0]
     ELSE found(Find(T, t, id))

RECURSIVE Descendants(_, _, _)
\* The ids t.GetDescendantIds(id) collects below node k (n bounds the depth).
Descendants(T, k, n) ==
  IF n = 0 THEN {}
  ELSE T[k].components \cup UNION {Descendants(T, c, n - 1) : c \in T[k].components}

\* t.GetDescendantIds(id): the ids as a set (the callers only test membership);
\* the walk visits every node below the found one, so a cycle there never ends.
GetDescendantIds(T, t, id) ==
  LET found(f) ==
        IF id = "" \/ ~f.ok THEN [ids |-> {}, div |-> f.div]
        ELSE [ids |-> Descendants(T, f.node, Cardinality(DOMAIN T)),
              div |-> IF CycleIn(T, Reach(T, f.node)) THEN 2 ELSE f.div]
  IN found(Find(T, t, id))

(* ------------------------------- World --------------------------------- *)

currentVersion == 1

Max(x, y) == IF x >= y THEN x ELSE y

\* m[k] = v on a Go map
Put(m, k, v) == [x \in DOMAIN m \cup {k} |-> IF x = k THEN v ELSE m[x]]

\* delete(m, k) on a Go map
Remove(m, k) == [x \in DOMAIN m \ {k} |-> m[x]]

\* CreateWorld(name).  div is the termination status of the calls made so far
\* by the running operation.
CreateWorld(name) ==
  [Version_ |-> currentVersion, Id_ |-> name, Name_ |-> name, Expanded_ |-> "",
   Items |-> <<>>, Rels |-> <<>>,
   Tree |-> [k \in {RootId} |-> newTree(Nil, Nil)],
   latestItem |-> Item(""), latestRel |-> Rel(Item(""), Item("")), latestErr |-> NoErr,
   div |-> 0]

\* w.SetVersion(version)
SetVersion(w, version) == [w EXCEPT !.Version_ = version]

\* w.SetId(id)
SetId(w, id) == [w EXCEPT !.Id_ = id]

\* w.SetName(name)
SetName(w, name) == [w EXCEPT !.Name_ = name]

\* w.SetExpanded(expanded)
SetExpanded(w, expanded) == [w EXCEPT !.Expanded_ = expanded]

resetLatestTrackers(w) ==
  [w EXCEPT !.latestItem = Item(""), !.latestRel = Rel(Item(""), Item("")), !.latestErr = NoErr]

\* w.ItemFetch(id)
ItemFetch(w, id) ==
  [ok |-> id \in DOMAIN w.Items,
   item |-> IF id \in DOMAIN w.Items THEN w.Items[id] ELSE Item("")]

\* Go ranges over a map in an order of its own: a loop that stops after limit
\* entries (limit > 0) has met any limit of them.
UpTo(S, limit) ==
  IF limit > 0 /\ Cardinality(S) > limit
  THEN {X \in SUBSET S : Cardinality(X) = limit}
  ELSE {S}

\* w.ItemList(limit): the lists it can return, each as the set of its Items.
ItemList(w, limit) == UpTo({w.Items[k] : k \in DOMAIN w.Items}, limit)

\* w.RelList(limit): the lists it can return, each as the set of its Rels.
RelList(w, limit) == UpTo({w.Rels[k] : k \in DOMAIN w.Rels}, limit)

\* w.ItemSet(id, params)
ItemSet(w, id, params) ==
  LET w0 == resetLatestTrackers(w)
      set(r) == [w0 EXCEPT !.Items = Put(@, id, r.item), !.latestItem = r.item,
                           !.latestErr = r.err]
  IN IF id \notin DOMAIN w.Items
     THEN [w0 EXCEPT !.latestErr = UseCode(New("item not found"), TopolithErrorNotFound)]
     ELSE set(itemSet(w.Items[id], params))

\* w.ItemCreate(id, params).  The Item handed to the Tree and kept as
\* latestItem is the local Item{Id: id}, made before ItemSet applied params;
\* the error ItemSet left in latestErr stays.
ItemCreate(w, id, params) ==
  LET w0 == resetLatestTrackers(w)
      item == Item(id)
      added(w1, am) == [w1 EXCEPT !.latestItem = item, !.Tree = am.tree, !.div = Max(@, am.div)]
      set(w1) == added(w1, AddOrMove(w1.Tree, RootId, item))
  IN IF id = "" THEN [w0 EXCEPT !.latestErr = New("id cannot be empty")]
     ELSE IF id \in DOMAIN w.Items
     THEN [w0 EXCEPT !.latestItem = w.Items[id],
                     !.latestErr = equalItemParams(w.Items[id], params)]
     ELSE set(ItemSet([w0 EXCEPT !.Items = Put(@, id, item)], id, params))

\* A deletion that leaves the Rels of the deleted Item in place.
ItemDeleteKeepsRels(w, id) ==
  LET w0 == resetLatestTrackers(w)
      deleted(td) == [w0 EXCEPT !.Items = Remove(@, id), !.Tree = td.tree,
                                !.div = Max(@, td.div)]
  IN IF id = "" THEN [w0 EXCEPT !.latestErr = New("id cannot be empty")]
     ELSE deleted(TreeDelete(w.Tree, RootId, id))

\* w.ItemDelete(id)
ItemDelete(w, id) ==
  LET w0 == resetLatestTrackers(w)
      kept == {k \in DOMAIN w.Rels : ~(w.Rels[k].From.Id = id \/ w.Rels[k].To.Id = id)}
      deleted(td) == [w0 EXCEPT !.Items = Remove(@, id), !.Tree = td.tree,
                                !.Rels = [k \in kept |-> w.Rels[k]], !.div = Max(@, td.div)]
  IN IF id = "" THEN [w0 EXCEPT !.latestErr = New("id cannot be empty")]
     ELSE deleted(TreeDelete(w.Tree, RootId, id))

\* w.RelSet(fromId, toId, params)
RelSet(w, fromId, toId, params) ==
  LET w0 == resetLatestTrackers(w)
      key == relIdFromIds(fromId, toId)
      set(rel) == [w0 EXCEPT !.Rels = Put(@, relId(rel), rel), !.latestRel = rel]
  IN IF key \notin DOMAIN w.Rels
     THEN [w0 EXCEPT !.latestErr = UseCode(New("rel not found"), TopolithErrorNotFound)]
     ELSE set(relSet(w.Rels[key], params))

\* w.RelCreate(fromId, toId, params)
RelCreate(w, fromId, toId, params) ==
  LET w0 == resetLatestTrackers(w)
      key == relIdFromIds(fromId, toId)
      rel == Rel(w.Items[fromId], w.Items[toId])
      w1 == RelSet([w0 EXCEPT !.Rels = Put(@, relId(rel), rel)], fromId, toId, params)
  IN IF fromId \notin DOMAIN w.Items \/ toId \notin DOMAIN w.Items
     THEN [w0 EXCEPT !.latestErr = UseCode(New("fromId for Rel not found"), TopolithErrorNotFound)]
     ELSE IF key \in DOMAIN w.Rels
     THEN [w0 EXCEPT !.latestRel = w.Rels[key],
                     !.latestErr = equalRelParams(w.Rels[key], params)]
     ELSE [w1 EXCEPT !.latestRel = rel]

\* w.RelDelete(fromId, toId)
RelDelete(w, fromId, toId) ==
  [resetLatestTrackers(w) EXCEPT !.Rels = Remove(@, relIdFromIds(fromId, toId))]

\* w.RelFetch when it only looks up the composite id, whatever strict is.
RelFetchByKey(w, fromId, toId, strict) ==
  [w |-> resetLatestTrackers(w),
   rels |-> IF relIdFromIds(fromId, toId) \in DOMAIN w.Rels
            THEN {w.Rels[relIdFromIds(fromId, toId)]} ELSE {}]

\* w.RelFetch(fromId, toId, strict): the Rels as a set, and the World with its
\* trackers reset.
RelFetch(w, fromId, toId, strict) ==
  LET w0 == resetLatestTrackers(w)
      key == relIdFromIds(fromId, toId)
      within(l, r) ==
        LET leftIds == l.ids \cup {fromId}
            rightIds == r.ids \cup {toId}
        IN [w |-> [w0 EXCEPT !.div = Max(@, Max(l.div, r.div))],
            rels |-> {w.Rels[k] : k \in {x \in DOMAIN w.Rels :
                         w.Rels[x].From.Id \in leftIds /\ w.Rels[x].To.Id \in rightIds}}]
  IN IF strict
     THEN [w |-> w0, rels |-> IF key \in DOMAIN w.Rels THEN {w.Rels[key]} ELSE {}]
     ELSE within(GetDescendantIds(w.Tree, RootId, fromId),
                 GetDescendantIds(w.Tree, RootId, toId))

\* w.RelTo(toId, strict): the Rels as a set; the trackers are left alone, and
\* the descendants are collected when strict is true.
RelTo(w, toId, strict) ==
  LET within(r) ==
        LET rightIds == IF strict THEN r.ids \cup {toId} ELSE {toId}
        IN [w |-> [w EXCEPT !.div = Max(@, IF strict THEN r.div ELSE 0)],
            rels |-> {w.Rels[k] : k \in {x \in DOMAIN w.Rels : w.Rels[x].To.Id \in rightIds}}]
  IN within(GetDescendantIds(w.Tree, RootId, toId))

\* w.RelFrom(fromId, strict): as RelTo, but the loop tests the key k of the
\* Rels map (the composite id) against the Item ids of leftIds.
RelFrom(w, fromId, strict) ==
  LET within(l) ==
        LET leftIds == IF strict THEN l.ids \cup {fromId} ELSE {fromId}
        IN [w |-> [w EXCEPT !.div = Max(@, IF strict THEN l.div ELSE 0)],
            rels |-> {w.Rels[k] : k \in {x \in DOMAIN w.Rels : x \in leftIds}}]
  IN within(GetDescendantIds(w.Tree, RootId, fromId))

\* w.Parent(childId)
Parent(w, childId) ==
  LET w0 == resetLatestTrackers(w)
      found(f) == [w |-> [w0 EXCEPT !.div = Max(@, f.div)],
                   id |-> IF f.ok THEN ParentItemId(w.Tree, f.node) ELSE "",
                   ok |-> f.ok]
  IN found(Find(w.Tree, RootId, childId))

\* w.Components(parentId)
Components(w, parentId) ==
  LET w0 == resetLatestTrackers(w)
      found(f) ==
        [w |-> [w0 EXCEPT !.div = Max(@, f.div)],
         ids |-> IF f.ok THEN {TreeItem(w.Tree, c).Id : c \in w.Tree[f.node].components}
                 ELSE {},
         ok |-> f.ok]
  IN found(Find(w.Tree, RootId, parentId))

\* w.ItemParent(childId): the code of Parent, returning the parent's Item in
\* place of its Id; the Item is known here by that Id.
ItemParent(w, childId) == Parent(w, childId)

\* w.ItemComponents(parentId): the code of Components, returning the Items of
\* the components in place of their Ids.
ItemComponents(w, parentId) ==
  LET w0 == resetLatestTrackers(w)
      found(f) ==
        [w |-> [w0 EXCEPT !.div = Max(@, f.div)],
         items |-> IF f.ok THEN {TreeItem(w.Tree, c) : c \in w.Tree[f.node].components}
                   ELSE {},
         ok |-> f.ok]
  IN found(Find(w.Tree, RootId, parentId))

\* w.In(childId, parentId, strict)
In(w, childId, parentId, strict) ==
  LET w0 == resetLatestTrackers(w)
      has(f, h) == [w |-> [w0 EXCEPT !.div = Max(@, Max(f.div, h.div))], ok |-> h.ok]
      found(f) == IF ~f.ok THEN [w |-> [w0 EXCEPT !.div = Max(@, f.div)], ok |-> FALSE]
                  ELSE has(f, Has(w.Tree, f.node, childId, strict))
  IN found(Find(w.Tree, RootId, parentId))

\* w.Nest(childId, parentId)
Nest(w, childId, parentId) ==
  LET w0 == resetLatestTrackers(w)
      item == w.Items[childId]
      moved(f, am) == [w0 EXCEPT !.latestItem = item, !.Tree = am.tree,
                                 !.div = Max(@, Max(f.div, am.div))]
      found(f) ==
        IF ~f.ok
        THEN [w0 EXCEPT !.latestItem = item, !.div = Max(@, f.div),
                        !.latestErr = UseCode(New("parentId for Nest not found in Tree"),
                                              TopolithErrorBadSyncState)]
        ELSE moved(f, AddOrMove(w.Tree, f.node, item))
  IN IF childId \notin DOMAIN w.Items
     THEN [w0 EXCEPT !.latestErr = UseCode(New("childId for Nest not found"), TopolithErrorNotFound)]
     ELSE IF parentId \notin DOMAIN w.Items
     THEN [w0 EXCEPT !.latestItem = item,
                     !.latestErr = UseCode(New("parentId for Nest not found"), TopolithErrorNotFound)]
     ELSE found(Find(w.Tree, RootId, parentId))

\* w.Free(childId)
Free(w, childId) ==
  LET w0 == resetLatestTrackers(w)
      item == w.Items[childId]
      moved(am) == [w0 EXCEPT !.latestItem = item, !.Tree = am.tree, !.div = Max(@, am.div)]
  IN IF childId \notin DOMAIN w.Items
     THEN [w0 EXCEPT !.latestErr = UseCode(New("childId for Free not found"), TopolithErrorNotFound)]
     ELSE moved(AddOrMove(w.Tree, RootId, item))

\* Go's < on the strings the model uses as Item ids, smallest first.
IdOrder == <<"", "1", "2", "3", "a", "a::a", "b", "c", "db", "srv">>

\* WorldEqual(w1, w2): the results the call can return, and the two Worlds as
\* the call leaves them (Parent and Components reset the trackers).  The Info
\* fields and the numbers of Items are compared first.  The Items of both
\* Worlds are then sorted by id and compared position by position, with the
\* parent and the components of each id in both Worlds; the first difference
\* ends the call.  The Rels of both Worlds are sorted by the id of their
\* source only and compared position by position: Rels with the same source
\* stand in the order in which Go ranged over the Rels map, so the call can
\* return true when the Rels of each source can be paired off as equals, and
\* false when two Rels that can meet at one position differ.
WorldEqual(w1, w2) ==
  LET RECURSIVE Sorted(_, _), Items(_, _, _)
      Sorted(S, i) ==
        IF i > Len(IdOrder) THEN <<>>
        ELSE (IF IdOrder[i] \in S THEN <<IdOrder[i]>> ELSE <<>>) \o Sorted(S, i + 1)
      ids1 == Sorted(DOMAIN w1.Items, 1)
      ids2 == Sorted(DOMAIN w2.Items, 1)
      from1(f) == {r \in {w1.Rels[k] : k \in DOMAIN w1.Rels} : r.From.Id = f}
      from2(f) == {r \in {w2.Rels[k] : k \in DOMAIN w2.Rels} : r.From.Id = f}
      sources == {w1.Rels[k].From.Id : k \in DOMAIN w1.Rels}
                   \cup {w2.Rels[k].From.Id : k \in DOMAIN w2.Rels}
      paired(f) ==
        /\ Cardinality(from1(f)) = Cardinality(from2(f))
        /\ \E m \in [from1(f) -> from2(f)] :
             /\ \A r \in from1(f) : RelEqual(r, m[r])
             /\ \A r, q \in from1(f) : m[r] = m[q] => r = q
      differ(f) ==
        \/ Cardinality(from1(f)) /= Cardinality(from2(f))
        \/ \E r \in from1(f), q \in from2(f) : ~RelEqual(r, q)
      Rels == IF Cardinality(DOMAIN w1.Rels) /= Cardinality(DOMAIN w2.Rels) THEN {FALSE}
              ELSE {b \in BOOLEAN : IF b THEN \A f \in sources : paired(f)
                                    ELSE \E f \in sources : differ(f)}
      result(outcomes, a, b) == [outcomes |-> outcomes, w1 |-> a, w2 |-> b]
      Items(i, a, b) ==
        IF i > Len(ids1) THEN result(Rels, a, b)
        ELSE IF ~ItemEqual(w1.Items[ids1[i]], w2.Items[ids2[i]]) THEN result({FALSE}, a, b)
        ELSE LET components(c1, c2) ==
                   IF c1.ids /= c2.ids THEN result({FALSE}, c1.w, c2.w)
                   ELSE Items(i + 1, c1.w, c2.w)
                 parent(p1, p2) ==
                   IF p1.id /= p2.id THEN result({FALSE}, p1.w, p2.w)
                   ELSE components(Components(p1.w, ids1[i]), Components(p2.w, ids1[i]))
             IN parent(Parent(a, ids1[i]), Parent(b, ids1[i]))
  IN IF \/ w1.Version_ /= w2.Version_ \/ w1.Id_ /= w2.Id_
        \/ w1.Name_ /= w2.Name_ \/ w1.Expanded_ /= w2.Expanded_
        \/ Len(ids1) /= Len(ids2)
     THEN result({FALSE}, w1, w2)
     ELSE Items(1, w1, w2)

(* ---------------------------- World as text ---------------------------- *)

\* The grammar's StringLike rule on the strings the model uses, for a value
\* written between quotes (QuotedText) or bare (Text): "x/y" has a character
\* of neither class, and a bare text is not empty and holds no ':'.
StringLike(s, quoted) ==
  IF quoted THEN s \notin {"x/y"} ELSE s \notin {"", "x/y", "a::a"}

\* i.String(): `item "<id>" external=<bool>` followed by type=<name>, name=,
\* mechanism= and expanded= for the fields that are not zero, as the id and the
\* key=value pairs of the text.
ItemString(i) ==
  LET keys == {"external"} \cup (IF i.Type > 0 THEN {"type"} ELSE {})
                \cup (IF i.Name /= "" THEN {"name"} ELSE {})
                \cup (IF i.Mechanism /= "" THEN {"mechanism"} ELSE {})
                \cup (IF i.Expanded /= "" THEN {"expanded"} ELSE {})
  IN [id |-> i.Id,
      params |-> [k \in keys |->
                    CASE k = "external" -> (IF i.External THEN "true" ELSE "false")
                      [] k = "type" -> StringFromItemType(i.Type)
                      [] k = "name" -> i.Name
                      [] k = "mechanism" -> i.Mechanism
                      [] k = "expanded" -> i.Expanded]]

\* The grammar accepts the text of an Item (rules Identifier and ItemParam):
\* a quoted id, a type that is one of the nine names, quoted values.
ItemObject(s) ==
  /\ StringLike(s.id, TRUE)
  /\ \A k \in DOMAIN s.params :
       CASE k = "external" -> s.params[k] \in {"true", "false"}
         [] k = "type" -> \E t \in 1..Len(ItemTypeNames) : ItemTypeNames[t] = s.params[k]
         [] OTHER -> StringLike(s.params[k], TRUE)

\* ItemFromString(s): a text the grammar rejects is an error; else the text
\* parses as the command `item <id> <params>`, and itemSet applies the params
\* to Item{Id: id}.
ItemFromString(s) ==
  IF ~ItemObject(s)
  THEN [item |-> Item(""), err |-> UseCode(New("error parsing Item"), TopolithErrorInvalid)]
  ELSE itemSet(Item(s.id),
          [External |-> IF "external" \in DOMAIN s.params THEN Ptr(s.params["external"] = "true") ELSE Nil,
           Type |-> IF "type" \in DOMAIN s.params THEN Ptr(s.params["type"]) ELSE Nil,
           Name |-> IF "name" \in DOMAIN s.params THEN Ptr(s.params["name"]) ELSE Nil,
           Mechanism |-> IF "mechanism" \in DOMAIN s.params THEN Ptr(s.params["mechanism"]) ELSE Nil,
           Expanded |-> IF "expanded" \in DOMAIN s.params THEN Ptr(s.params["expanded"]) ELSE Nil])

\* The grammar accepts the text of a Rel (rules DualIdentifier and RelParam).
RelObject(s) ==
  /\ StringLike(s.from, TRUE) /\ StringLike(s.to, TRUE)
  /\ \A k \in DOMAIN s.params :
       IF k = "async" THEN s.params[k] \in {"true", "false"}
       ELSE StringLike(s.params[k], TRUE)

\* r.String(): `rel "<from>" "<to>"` followed by verb=, mechanism=, async=true
\* and expanded= for the fields that are not zero.  The text is parsed before
\* it is returned, and a text the grammar rejects is a panic.
RelString(r) ==
  LET keys == (IF r.Verb /= "" THEN {"verb"} ELSE {})
                \cup (IF r.Mechanism /= "" THEN {"mechanism"} ELSE {})
                \cup (IF r.Async THEN {"async"} ELSE {})
                \cup (IF r.Expanded /= "" THEN {"expanded"} ELSE {})
      parsed(rel) == [text |-> rel, panic |-> ~RelObject(rel)]
  IN parsed([from |-> r.From.Id, to |-> r.To.Id,
             params |-> [k \in keys |->
                           CASE k = "verb" -> r.Verb
                             [] k = "mechanism" -> r.Mechanism
                             [] k = "async" -> "true"
                             [] k = "expanded" -> r.Expanded]])

\* RelFromString(w, s): a text the grammar rejects is an error (a plain Go
\* error, without a code); else the endpoints are fetched from w, and relSet
\* applies the params of the text.
RelFromString(w, s) ==
  IF ~RelObject(s)
  THEN [rel |-> Rel(Item(""), Item("")), err |-> [Code |-> 0, Message |-> "error parsing Rel"]]
  ELSE IF ~ItemFetch(w, s.from).ok
  THEN [rel |-> Rel(Item(""), Item("")),
        err |-> UseCode(New("from Item not found"), TopolithErrorNotFound)]
  ELSE IF ~ItemFetch(w, s.to).ok
  THEN [rel |-> Rel(Item(""), Item("")),
        err |-> UseCode(New("to Item not found"), TopolithErrorNotFound)]
  ELSE [rel |-> relSet(Rel(ItemFetch(w, s.from).item, ItemFetch(w, s.to).item),
                       [Verb |-> IF "verb" \in DOMAIN s.params THEN Ptr(s.params["verb"]) ELSE Nil,
                        Mechanism |-> IF "mechanism" \in DOMAIN s.params
                                      THEN Ptr(s.params["mechanism"]) ELSE Nil,
                        Async |-> IF "async" \in DOMAIN s.params
                                  THEN Ptr(s.params["async"] = "true") ELSE Nil,
                        Expanded |-> IF "expanded" \in DOMAIN s.params
                                     THEN Ptr(s.params["expanded"]) ELSE Nil]),
        err |-> NoErr]

\* The orders in which Go can range over the set S (a map, a mapset): every
\* sequence that holds each element once.
Orders(S) ==
  {o \in [1..Cardinality(S) -> S] : \A x \in S : \E i \in DOMAIN o : o[i] = x}

RECURSIVE TreeString(_, _, _)
\* t.String() for the node k: `tree{<item or nil>::[<components>]}`, the item
\* being the one the node points to, as the set of the texts it can return:
\* one for each order of the components at each node, and none when the
\* recursion does not end (a node met again below itself; n counts the nodes
\* still to meet on the way down).
TreeString(T, k, n) ==
  LET item == IF T[k].item = Nil THEN <<>> ELSE <<ItemString(Deref(T[k].item))>>
      below(o) == {cs \in [DOMAIN o -> UNION {TreeString(T, c, n - 1) : c \in T[k].components}] :
                     \A i \in DOMAIN o : cs[i] \in TreeString(T, o[i], n - 1)}
  IN IF T[k].components = {} THEN {[item |-> item, components |-> <<>>]}
     ELSE IF n = 0 THEN {}
     ELSE {[item |-> item, components |-> cs] :
             cs \in UNION {below(o) : o \in Orders(T[k].components)}}

\* w.String(): the four parameters, the tree and the Rels between `$$world`
\* and `endworld$$`, as the set of the texts it can return (one for each order
\* of the components and of the Rels); fault tells how the call ends when it
\* returns none.
WorldString(w) ==
  LET trees == TreeString(w.Tree, RootId, Cardinality(DOMAIN w.Tree))
      rels == {w.Rels[k] : k \in DOMAIN w.Rels}
      ends == IF trees = {} THEN "stack overflow"
               ELSE IF \E r \in rels : RelString(r).panic THEN "panic"
               ELSE ""
  IN [fault |-> ends,
      texts |-> IF ends /= "" THEN {}
                ELSE {[form |-> "world", version |-> w.Version_, id |-> w.Id_, name |-> w.Name_,
                       expanded |-> w.Expanded_, tree |-> t,
                       rels |-> [i \in DOMAIN o |-> RelString(o[i]).text]] :
                        t \in trees, o \in Orders(rels)}]

\* The grammar takes the text s of a World as a WorldObject: a version of
\* digits, an id that is StringLike, a name and an expanded that are empty or
\* StringLike, a Tree whose Items are ItemObjects, and RelObjects.
WorldObject(s) ==
  LET RECURSIVE Accepted(_)
      Accepted(t) == /\ \A i \in DOMAIN t.item : ItemObject(t.item[i])
                     /\ \A i \in DOMAIN t.components : Accepted(t.components[i])
  IN /\ s.version >= 0
     /\ StringLike(s.id, FALSE)
     /\ s.name = "" \/ StringLike(s.name, FALSE)
     /\ s.expanded = "" \/ StringLike(s.expanded, FALSE)
     /\ Accepted(s.tree)
     /\ \A i \in DOMAIN s.rels : RelObject(s.rels[i])

\* FromString(s) on the text of a World (s.form = "world") or of a Tree alone
\* (s.form = "tree").  A text the grammar rejects is an error.  On the text of
\* a World the grammar accepts, grammar.Parse does not return: the actions of
\* the WorldParam rules write p.WorldParams, a map Parse never allocates
\* (panic: assignment to entry in nil map).  Else, on a Tree: CreateWorld of
\* the name, then the version, id and expanded when they are not zero, all
\* four read from the nil map as ""; then the three loops: over p.ItemStrings,
\* the Item texts in the order of the text (ItemFromString, then ItemCreate
\* with every param set; an error ends the parse); over the nodes of p.Tree,
\* last child first (each node is nested in its parent; a root without an
\* Item has the id "nil", and the root has no parent); and over p.RelStrings
\* in the order of the text (RelFromString, then RelCreate with every param
\* set).
FromString(s) ==
  LET RECURSIVE ItemStrings(_), Concat(_, _), CreateItems(_, _, _), NestNodes(_, _),
                CreateRels(_, _, _), Accepted(_)
      Accepted(t) == /\ \A i \in DOMAIN t.item : ItemObject(t.item[i])
                     /\ \A i \in DOMAIN t.components : Accepted(t.components[i])
      WorldParams == [k \in {"version", "id", "name", "expanded"} |-> ""]
      Concat(ts, i) == IF i > Len(ts) THEN <<>> ELSE ItemStrings(ts[i]) \o Concat(ts, i + 1)
      ItemStrings(t) == t.item \o Concat(t.components, 1)
      NodeId(t) == IF t.item = <<>> THEN "nil" ELSE t.item[1].id
      failed(e) == [w |-> Nil, err |-> e, fault |-> ""]
      CreateItems(w, texts, i) ==
        IF i > Len(texts) THEN [w |-> w, err |-> NoErr, fault |-> ""]
        ELSE LET parsed(r) ==
                   IF r.err /= NoErr THEN failed(r.err)
                   ELSE CreateItems(ItemCreate(w, r.item.Id,
                                               [External |-> Ptr(r.item.External),
                                                Type |-> Ptr(Itoa(r.item.Type)),
                                                Name |-> Ptr(r.item.Name),
                                                Mechanism |-> Ptr(r.item.Mechanism),
                                                Expanded |-> Ptr(r.item.Expanded)]),
                                    texts, i + 1)
             IN parsed(ItemFromString(texts[i]))
      NestNodes(w, stack) ==
        IF stack = <<>> THEN w
        ELSE LET current == stack[Len(stack)]
                 children == current.node.components
                 pushed == SubSeq(stack, 1, Len(stack) - 1)
                             \o [i \in DOMAIN children |->
                                   [node |-> children[i], parentId |-> NodeId(current.node)]]
             IN NestNodes(IF current.parentId /= ""
                          THEN Nest(w, NodeId(current.node), current.parentId) ELSE w,
                          pushed)
      CreateRels(w, texts, i) ==
        IF i > Len(texts) THEN [w |-> w, err |-> NoErr, fault |-> ""]
        ELSE LET parsed(r) ==
                   IF r.err /= NoErr THEN failed(r.err)
                   ELSE CreateRels(RelCreate(w, r.rel.From.Id, r.rel.To.Id,
                                             [Verb |-> Ptr(r.rel.Verb),
                                              Mechanism |-> Ptr(r.rel.Mechanism),
                                              Async |-> Ptr(r.rel.Async),
                                              Expanded |-> Ptr(r.rel.Expanded)]),
                                   texts, i + 1)
             IN parsed(RelFromString(w, texts[i]))
      named == CreateWorld(WorldParams["name"])
      versioned == IF AtoiOk(WorldParams["version"]) /\ Atoi(WorldParams["version"]) /= 0
                   THEN SetVersion(named, Atoi(WorldParams["version"])) ELSE named
      identified == IF WorldParams["id"] /= ""
                    THEN SetId(versioned, WorldParams["id"]) ELSE versioned
      expanded == IF WorldParams["expanded"] /= ""
                  THEN SetExpanded(identified, WorldParams["expanded"]) ELSE identified
      withItems(r) ==
        IF r.err /= NoErr THEN r
        ELSE CreateRels(NestNodes(r.w, <<[node |-> s.tree, parentId |-> ""]>>), s.rels, 1)
  IN IF ~(IF s.form = "world" THEN WorldObject(s) ELSE Accepted(s.tree))
     THEN failed(UseCode(New("error parsing World"), TopolithErrorInvalid))
     ELSE IF s.form = "world"
     THEN [w |-> Nil, err |-> NoErr, fault |-> "assignment to entry in nil map"]
     ELSE withItems(CreateItems(expanded, ItemStrings(s.tree), 1))

(* ------------------------------ Commands ------------------------------- *)

\* The fmt.Stringer a command returns, as one record shape for every kind.
Obj(kind) ==
  [kind |-> kind, item |-> Item(""), rel |-> Rel(Item(""), Item("")), bool |-> FALSE,
   items |-> {}, rels |-> {}]

ObjItem(i) == [Obj("item") EXCEPT !.item = i]

ObjRel(r) == [Obj("rel") EXCEPT !.rel = r]

BoolStringer(b) == [Obj("bool") EXCEPT !.bool = b]

ObjItems(S) == [Obj("items") EXCEPT !.items = S]

ObjRels(S) == [Obj("rels") EXCEPT !.rels = S]

\* grammar.InputAttributes of a parsed Command (Raw left out).
InputAttributes(resourceType, verb, id, ids, secondaryIds, params, flags) ==
  [ResourceType |-> resourceType, Verb |-> verb, ResourceId |-> id, ResourceIds |-> ids,
   SecondaryIds |-> secondaryIds, Params |-> params, Flags |-> flags]

ItemParamsFromInput(input) ==
  LET P == input.Params
  IN [External |-> IF "external" \in DOMAIN P THEN Ptr(P["external"] = "true") ELSE Nil,
      Type |-> IF "type" \in DOMAIN P THEN Ptr(P["type"]) ELSE Nil,
      Name |-> IF "name" \in DOMAIN P THEN Ptr(P["name"]) ELSE Nil,
      Mechanism |-> IF "mechanism" \in DOMAIN P THEN Ptr(P["mechanism"]) ELSE Nil,
      Expanded |-> IF "expanded" \in DOMAIN P THEN Ptr(P["expanded"]) ELSE Nil]

RelParamsFromInput(input) ==
  LET P == input.Params
  IN [Verb |-> IF "verb" \in DOMAIN P THEN Ptr(P["verb"]) ELSE Nil,
      Mechanism |-> IF "mechanism" \in DOMAIN P THEN Ptr(P["mechanism"]) ELSE Nil,
      Async |-> IF "async" \in DOMAIN P THEN Ptr(P["async"] = "true") ELSE Nil,
      Expanded |-> IF "expanded" \in DOMAIN P THEN Ptr(P["expanded"]) ELSE Nil]

\* A Command value: the variant (its Go type) with the fields of every
\* variant.  no is the variant's noCreate / noSet / noDelete flag;
\* oldParentIds is the map made by itemCommand; Limit is the field of the two
\* list commands, 0 until itemCommand or relCommand sets it.
Command(variant, base, toId, ids, parentId, params, oldParams) ==
  [variant |-> variant, Id |-> base.Id, Flags |-> base.Flags, ToId |-> toId, Ids |-> ids,
   ParentId |-> parentId, Params |-> params, oldParams |-> oldParams, no |-> FALSE,
   oldParentIds |-> <<>>, Limit |-> 0]

\* limitFromInput(input): the integer of Params["limit"], 0 when there is none
\* or it is no integer.
limitFromInput(input) ==
  IF "limit" \notin DOMAIN input.Params THEN 0
  ELSE IF AtoiOk(input.Params["limit"]) THEN Atoi(input.Params["limit"])
  ELSE 0

\* itemCommand(base, input)
itemCommand(base, input) ==
  LET ip == ItemParamsFromInput(input)
      v == input.Verb
      mk(variant, ids, parentId, params) ==
        [ok |-> TRUE, c |-> Command(variant, base, "", ids, parentId, params, ItemParams)]
  IN CASE v = "create" -> mk("ItemCreate", <<>>, "", ip)
       [] v = "fetch" -> mk("ItemFetch", <<>>, "", ItemParams)
       [] v = "list" -> [mk("ItemList", <<>>, "", ItemParams)
                           EXCEPT !.c.Limit = limitFromInput(input)]
       [] v = "set" -> mk("ItemSet", <<>>, "", ip)
       [] v = "clear" -> mk("ItemClear", <<>>, "", ip)
       [] v = "delete" -> mk("ItemDelete", <<>>, "", ItemParams)
       [] v = "nest" -> mk("ItemNest", input.ResourceIds, input.SecondaryIds[1], ItemParams)
       [] v = "free" -> mk("ItemFree", input.ResourceIds, "", ItemParams)
       [] v = "exists" -> mk("ItemExists", <<>>, "", ItemParams)
       [] v = "in?" -> mk("ItemInQuery", <<>>, input.SecondaryIds[1], ItemParams)
       [] v = "create-or-fetch" -> mk("ItemCreateOrFetch", <<>>, "", ItemParams)
       [] v = "create-or-set" -> mk("ItemCreateOrSet", <<>>, "", ip)
       [] OTHER -> [ok |-> FALSE, c |-> Command("", base, "", <<>>, "", ItemParams, ItemParams)]

\* relCommand(base, input)
relCommand(base, input) ==
  LET rp == RelParamsFromInput(input)
      v == input.Verb
      mk(variant, toId, params) ==
        [ok |-> TRUE, c |-> Command(variant, base, toId, <<>>, "", params, RelParams)]
  IN CASE v = "create" -> mk("RelCreate", input.SecondaryIds[1], rp)
       [] v = "fetch" -> mk("RelFetch", input.SecondaryIds[1], RelParams)
       [] v = "list" -> [mk("RelList", "", RelParams)
                           EXCEPT !.c.Limit = limitFromInput(input)]
       [] v = "set" -> mk("RelSet", input.SecondaryIds[1], rp)
       [] v = "clear" -> mk("RelClear", input.SecondaryIds[1], rp)
       [] v = "delete" -> mk("RelDelete", input.SecondaryIds[1], RelParams)
       [] v = "exists" -> mk("RelExists", input.SecondaryIds[1], RelParams)
       [] v = "to?" -> mk("RelToQuery", "", RelParams)
       [] v = "from?" -> mk("RelFromQuery", "", RelParams)
       [] v = "create-or-fetch" -> mk("RelCreateOrFetch", input.SecondaryIds[1], RelParams)
       [] v = "create-or-set" -> mk("RelCreateOrSet", input.SecondaryIds[1], rp)
       [] OTHER -> [ok |-> FALSE, c |-> Command("", base, "", <<>>, "", RelParams, RelParams)]

\* A conversion that knows no rel commands.
InputToCommandItemsOnly(input) ==
  LET base == [Id |-> input.ResourceId, Flags |-> input.Flags]
  IN IF input.ResourceType = "item" THEN itemCommand(base, input)
     ELSE [ok |-> FALSE, c |-> Command("", base, "", <<>>, "", ItemParams, ItemParams)]

\* InputToCommand(input)
InputToCommand(input) ==
  LET base == [Id |-> input.ResourceId, Flags |-> input.Flags]
  IN CASE input.ResourceType = "world" ->
            [ok |-> TRUE, c |-> Command("WorldFetch", base, "", <<>>, "", ItemParams, ItemParams)]
       [] input.ResourceType = "item" -> itemCommand(base, input)
       [] input.ResourceType = "rel" -> relCommand(base, input)
       [] OTHER -> [ok |-> FALSE, c |-> Command("", base, "", <<>>, "", ItemParams, ItemParams)]

\* A pre-image that leaves the name out.
ItemOldParamsWithoutName(item) ==
  [External |-> Ptr(item.External), Type |-> Ptr(StringFromItemType(item.Type)),
   Name |-> Nil, Mechanism |-> Ptr(item.Mechanism), Expanded |-> Ptr(item.Expanded)]

\* The pre-image the item commands capture from the fetched Item.
ItemOldParams(item) ==
  [External |-> Ptr(item.External), Type |-> Ptr(StringFromItemType(item.Type)),
   Name |-> Ptr(item.Name), Mechanism |-> Ptr(item.Mechanism), Expanded |-> Ptr(item.Expanded)]

\* The pre-image the rel commands capture from the fetched Rel.
RelOldParams(rel) ==
  [Verb |-> Ptr(rel.Verb), Mechanism |-> Ptr(rel.Mechanism), Async |-> Ptr(rel.Async),
   Expanded |-> Ptr(rel.Expanded)]

ErrNotFoundItem == UseCode(New("could not find Item"), TopolithErrorNotFound)

ErrNotFoundRel == UseCode(New("could not find Rel"), TopolithErrorNotFound)

\* What Execute returns, with the World and the command as they are after it.
Result(w, c, obj, err) == [w |-> w, c |-> c, obj |-> obj, err |-> err]

\* return w.Item(), w.Err()
ItemResult(w, c) == Result(w, c, ObjItem(w.latestItem), w.latestErr)

\* return w.Rel(), w.Err()
RelResult(w, c) == Result(w, c, ObjRel(w.latestRel), w.latestErr)

\* return obj, w.Err()
ErrResult(w, c, obj) == Result(w, c, obj, w.latestErr)

\* The BoolStringer and the joined errors of a nest or free loop.
LoopResult(r, c) ==
  IF r.errs > 0 THEN Result(r.w, c, BoolStringer(FALSE), Join(r.errs))
  ELSE Result(r.w, c, BoolStringer(TRUE), NoErr)

RECURSIVE NestLoop(_, _, _, _)
\* The loop of ItemNestCommand.Execute from position i on: the World after it
\* and the number of errors collected.  What Nest reports is dropped.
NestLoop(w, c, i, errs) ==
  IF i > Len(c.Ids) THEN [w |-> w, errs |-> errs]
  ELSE LET id == c.Ids[i]
           at(p) == IF ~p.ok THEN NestLoop(p.w, c, i + 1, errs + 1)
                    ELSE IF p.id = c.ParentId THEN NestLoop(p.w, c, i + 1, errs)
                    ELSE NestLoop(Nest(p.w, id, c.ParentId), c, i + 1, errs)
       IN at(Parent(w, id))

RECURSIVE FreeLoop(_, _, _, _)
\* The loop of ItemFreeCommand.Execute.
FreeLoop(w, c, i, errs) ==
  IF i > Len(c.Ids) THEN [w |-> w, errs |-> errs]
  ELSE LET id == c.Ids[i]
           at(p) == IF ~p.ok THEN FreeLoop(p.w, c, i + 1, errs + 1)
                    ELSE FreeLoop(Free(p.w, id), c, i + 1, errs)
       IN at(Parent(w, id))

ItemCreateExecute(c, w) ==
  LET f == ItemFetch(w, c.Id)
  IN IF f.ok THEN Result(w, [c EXCEPT !.no = TRUE], ObjItem(f.item), NoErr)
     ELSE ItemResult(ItemCreate(w, c.Id, c.Params), c)

\* A fetch that creates the Item it does not find.
ItemFetchExecuteCreating(c, w) ==
  LET f == ItemFetch(w, c.Id)
  IN IF f.ok THEN Result(w, c, ObjItem(f.item), NoErr)
     ELSE ItemResult(ItemCreate(w, c.Id, ItemParams), c)

ItemFetchExecute(c, w) ==
  LET f == ItemFetch(w, c.Id)
  IN IF ~f.ok THEN Result(w, c, ObjItem(Item("")), ErrNotFoundItem)
     ELSE Result(w, c, ObjItem(f.item), NoErr)

\* ItemListCommand.Execute: one outcome for each list w.ItemList(c.Limit) can
\* return.
ItemListExecute(c, w) ==
  {Result(w, c, ObjItems(items), NoErr) : items \in ItemList(w, c.Limit)}

\* Execute of ItemSetCommand and of ItemClearCommand (the same code).
ItemSetExecute(c, w) ==
  LET f == ItemFetch(w, c.Id)
  IN IF ~f.ok THEN Result(w, [c EXCEPT !.no = TRUE], ObjItem(Item("")), ErrNotFoundItem)
     ELSE ItemResult(ItemSet(w, c.Id, c.Params), [c EXCEPT !.oldParams = ItemOldParams(f.item)])

\* An Execute of delete that does not look the Item up first.
ItemDeleteExecuteUnchecked(c, w) ==
  ErrResult(ItemDelete(w, c.Id), [c EXCEPT !.oldParams = ItemOldParams(ItemFetch(w, c.Id).item)],
            ObjItem(Item("")))

ItemDeleteExecute(c, w) ==
  LET f == ItemFetch(w, c.Id)
  IN IF ~f.ok THEN Result(w, [c EXCEPT !.no = TRUE], ObjItem(Item("")), NoErr)
     ELSE ErrResult(ItemDelete(w, c.Id), [c EXCEPT !.oldParams = ItemOldParams(f.item)],
                    ObjItem(Item("")))

\* Execute fills local maps named oldParentIds and noNest; the command's own
\* maps are left as itemCommand made them.
ItemNestExecute(c, w) == LoopResult(NestLoop(w, c, 1, 0), c)

ItemFreeExecute(c, w) == LoopResult(FreeLoop(w, c, 1, 0), c)

ItemExistsExecute(c, w) == Result(w, c, BoolStringer(ItemFetch(w, c.Id).ok), NoErr)

ItemCreateOrFetchExecute(c, w) ==
  LET f == ItemFetch(w, c.Id)
  IN IF f.ok THEN Result(w, [c EXCEPT !.no = TRUE], ObjItem(f.item), NoErr)
     ELSE ItemResult(ItemCreate(w, c.Id, ItemParams), c)

ItemCreateOrSetExecute(c, w) ==
  LET f == ItemFetch(w, c.Id)
  IN IF f.ok
     THEN ItemResult(ItemSet(w, c.Id, c.Params),
                     [c EXCEPT !.no = TRUE, !.oldParams = ItemOldParams(f.item)])
     ELSE ItemResult(ItemCreate(w, c.Id, c.Params), c)

ItemInQueryExecute(c, w) ==
  LET answer(r) == Result(r.w, c, BoolStringer(r.ok), NoErr)
  IN answer(In(w, c.Id, c.ParentId, "strict" \in c.Flags))

EmptyRel == Rel(Item(""), Item(""))

\* rels[0] of a strict RelFetch, which holds at most one Rel.
First(rels) == CHOOSE r \in rels : TRUE

RelCreateExecute(c, w) ==
  LET fetched(f) ==
        IF f.rels /= {} THEN Result(f.w, [c EXCEPT !.no = TRUE], ObjRel(EmptyRel), NoErr)
        ELSE RelResult(RelCreate(f.w, c.Id, c.ToId, c.Params), c)
  IN fetched(RelFetch(w, c.Id, c.ToId, TRUE))

\* Execute of RelSetCommand and of RelClearCommand (the same code).
RelSetExecute(c, w) ==
  LET fetched(f) ==
        IF f.rels = {} THEN Result(f.w, [c EXCEPT !.no = TRUE], ObjRel(EmptyRel), ErrNotFoundRel)
        ELSE RelResult(RelSet(f.w, c.Id, c.ToId, c.Params),
                       [c EXCEPT !.oldParams = RelOldParams(First(f.rels))])
  IN fetched(RelFetch(w, c.Id, c.ToId, TRUE))

\* RelDeleteCommand.Execute looks the Rel up under (Id, Id).
RelDeleteExecute(c, w) ==
  LET fetched(f) ==
        IF f.rels = {} THEN Result(f.w, [c EXCEPT !.no = TRUE], ObjRel(EmptyRel), NoErr)
        ELSE ErrResult(RelDelete(f.w, c.Id, c.ToId),
                       [c EXCEPT !.oldParams = RelOldParams(First(f.rels))], ObjRel(EmptyRel))
  IN fetched(RelFetch(w, c.Id, c.Id, TRUE))

\* RelFetchCommand.Execute returns rels[0]: the one Rel of a strict fetch, else
\* whichever of the Rels found the loop over the Rels map met first (one
\* outcome for each).
RelFetchExecute(c, w) ==
  LET fetched(f) ==
        IF f.rels = {} THEN {Result(f.w, c, ObjRel(EmptyRel), ErrNotFoundRel)}
        ELSE {Result(f.w, c, ObjRel(rel), NoErr) : rel \in f.rels}
  IN fetched(RelFetch(w, c.Id, c.ToId, "strict" \in c.Flags))

RelExistsExecute(c, w) ==
  LET fetched(f) == Result(f.w, c, BoolStringer(f.rels /= {}), NoErr)
  IN fetched(RelFetch(w, c.Id, c.ToId, TRUE))

\* RelListCommand.Execute: one outcome for each list w.RelList(c.Limit) can
\* return.
RelListExecute(c, w) ==
  {Result(w, c, ObjRels(rels), NoErr) : rels \in RelList(w, c.Limit)}

RelToQueryExecute(c, w) ==
  LET listed(f) == Result(f.w, c, ObjRels(f.rels), NoErr)
  IN listed(RelTo(w, c.Id, "strict" \in c.Flags))

RelFromQueryExecute(c, w) ==
  LET listed(f) == Result(f.w, c, ObjRels(f.rels), NoErr)
  IN listed(RelFrom(w, c.Id, "strict" \in c.Flags))

RelCreateOrFetchExecute(c, w) ==
  LET fetched(f) ==
        IF f.rels /= {}
        THEN Result(f.w, [c EXCEPT !.no = TRUE], ObjRel(First(f.rels)), NoErr)
        ELSE RelResult(RelCreate(f.w, c.Id, c.ToId, RelParams), c)
  IN fetched(RelFetch(w, c.Id, c.ToId, TRUE))

RelCreateOrSetExecute(c, w) ==
  LET fetched(f) ==
        IF f.rels /= {}
        THEN RelResult(RelSet(f.w, c.Id, c.ToId, c.Params),
                       [c EXCEPT !.no = TRUE, !.oldParams = RelOldParams(First(f.rels))])
        ELSE RelResult(RelCreate(f.w, c.Id, c.ToId, c.Params), c)
  IN fetched(RelFetch(w, c.Id, c.ToId, TRUE))

\* c.Execute(w), by the command's Go type: the set of its outcomes, more than
\* one where the object returned depends on the order in which Go ranges over
\* a map.
Execute(c, w) ==
  CASE c.variant = "WorldFetch" -> {Result(w, c, Obj("world"), NoErr)}
    [] c.variant = "ItemCreate" -> {ItemCreateExecute(c, w)}
    [] c.variant = "ItemFetch" -> {ItemFetchExecute(c, w)}
    [] c.variant = "ItemList" -> ItemListExecute(c, w)
    [] c.variant \in {"ItemSet", "ItemClear"} -> {ItemSetExecute(c, w)}
    [] c.variant = "ItemDelete" -> {ItemDeleteExecute(c, w)}
    [] c.variant = "ItemNest" -> {ItemNestExecute(c, w)}
    [] c.variant = "ItemFree" -> {ItemFreeExecute(c, w)}
    [] c.variant = "ItemExists" -> {ItemExistsExecute(c, w)}
    [] c.variant = "ItemInQuery" -> {ItemInQueryExecute(c, w)}
    [] c.variant = "ItemCreateOrFetch" -> {ItemCreateOrFetchExecute(c, w)}
    [] c.variant = "ItemCreateOrSet" -> {ItemCreateOrSetExecute(c, w)}
    [] c.variant = "RelCreate" -> {RelCreateExecute(c, w)}
    [] c.variant = "RelFetch" -> RelFetchExecute(c, w)
    [] c.variant \in {"RelSet", "RelClear"} -> {RelSetExecute(c, w)}
    [] c.variant = "RelDelete" -> {RelDeleteExecute(c, w)}
    [] c.variant = "RelExists" -> {RelExistsExecute(c, w)}
    [] c.variant = "RelList" -> RelListExecute(c, w)
    [] c.variant = "RelToQuery" -> {RelToQueryExecute(c, w)}
    [] c.variant = "RelFromQuery" -> {RelFromQueryExecute(c, w)}
    [] c.variant = "RelCreateOrFetch" -> {RelCreateOrFetchExecute(c, w)}
    [] c.variant = "RelCreateOrSet" -> {RelCreateOrSetExecute(c, w)}

\* What Undo returns, with the World as it is after it.
Undone(w, err) == [w |-> w, err |-> err]

\* return w.Err()
UndoneErr(w) == Undone(w, w.latestErr)

\* An Undo of a create that leaves the Item in place.
ItemCreateUndoKeepsItem(c, w) == Undone(w, NoErr)

\* Undo of ItemCreateCommand and of ItemCreateOrFetchCommand.
ItemCreateUndo(c, w) ==
  IF c.no THEN Undone(w, NoErr) ELSE UndoneErr(ItemDelete(w, c.Id))

\* Undo of ItemSetCommand and of ItemClearCommand.
ItemSetUndo(c, w) ==
  IF c.no THEN Undone(w, NoErr) ELSE UndoneErr(ItemSet(w, c.Id, c.oldParams))

ItemDeleteUndo(c, w) ==
  IF c.no THEN Undone(w, NoErr) ELSE UndoneErr(ItemCreate(w, c.Id, c.oldParams))

ItemCreateOrSetUndo(c, w) ==
  IF c.no THEN UndoneErr(ItemSet(w, c.Id, c.oldParams))
  ELSE UndoneErr(ItemDelete(w, c.Id))

RECURSIVE NestUndoLoop(_, _, _)
\* The loop of ItemNestCommand.Undo over the ids of todo, a subset of the keys
\* of c.oldParentIds (a map that Execute never fills).
NestUndoLoop(w, c, todo) ==
  IF todo = {} THEN w
  ELSE LET id == CHOOSE x \in todo : TRUE
       IN IF c.oldParentIds[id] = "" THEN NestUndoLoop(Free(w, id), c, todo \ {id})
          ELSE NestUndoLoop(Nest(w, id, c.oldParentIds[id]), c, todo \ {id})

RECURSIVE FreeUndoLoop(_, _, _)
\* The loop of ItemFreeCommand.Undo, over the same kind of map.
FreeUndoLoop(w, c, todo) ==
  IF todo = {} THEN w
  ELSE LET id == CHOOSE x \in todo : TRUE
       IN IF c.oldParentIds[id] = "" THEN FreeUndoLoop(w, c, todo \ {id})
          ELSE FreeUndoLoop(Nest(w, id, c.oldParentIds[id]), c, todo \ {id})

ItemNestUndo(c, w) == Undone(NestUndoLoop(w, c, DOMAIN c.oldParentIds), NoErr)

ItemFreeUndo(c, w) == Undone(FreeUndoLoop(w, c, DOMAIN c.oldParentIds), NoErr)

\* Undo of RelCreateCommand and of RelCreateOrFetchCommand.
RelCreateUndo(c, w) ==
  IF c.no THEN Undone(w, NoErr) ELSE UndoneErr(RelDelete(w, c.Id, c.ToId))

\* Undo of RelSetCommand and of RelClearCommand.
RelSetUndo(c, w) ==
  IF c.no THEN Undone(w, NoErr) ELSE UndoneErr(RelSet(w, c.Id, c.ToId, c.oldParams))

\* RelDeleteCommand.Undo creates the Rel under (Id, Id).
RelDeleteUndo(c, w) ==
  IF c.no THEN Undone(w, NoErr) ELSE UndoneErr(RelCreate(w, c.Id, c.Id, c.oldParams))

RelCreateOrSetUndo(c, w) ==
  IF c.no THEN UndoneErr(RelSet(w, c.Id, c.ToId, c.oldParams))
  ELSE UndoneErr(RelDelete(w, c.Id, c.ToId))

\* c.Undo(w), by the command's Go type; a query's Undo does nothing.
Undo(c, w) ==
  CASE c.variant \in {"ItemCreate", "ItemCreateOrFetch"} -> ItemCreateUndo(c, w)
    [] c.variant \in {"ItemSet", "ItemClear"} -> ItemSetUndo(c, w)
    [] c.variant = "ItemDelete" -> ItemDeleteUndo(c, w)
    [] c.variant = "ItemCreateOrSet" -> ItemCreateOrSetUndo(c, w)
    [] c.variant = "ItemNest" -> ItemNestUndo(c, w)
    [] c.variant = "ItemFree" -> ItemFreeUndo(c, w)
    [] c.variant \in {"RelCreate", "RelCreateOrFetch"} -> RelCreateUndo(c, w)
    [] c.variant \in {"RelSet", "RelClear"} -> RelSetUndo(c, w)
    [] c.variant = "RelDelete" -> RelDeleteUndo(c, w)
    [] c.variant = "RelCreateOrSet" -> RelCreateOrSetUndo(c, w)
    [] OTHER -> Undone(w, NoErr)

(* -------------------------------- App ---------------------------------- *)

\* The outcomes of an operation whose calls have termination status d:
\* TRUE is a stack overflow.
Overflows(d) == IF d = 0 THEN {FALSE} ELSE IF d = 1 THEN BOOLEAN ELSE {TRUE}

\* The World an operation leaves behind once it has returned.
Returned(w) == [w EXCEPT !.div = 0]

\* What the last call of the App returned: op names the call, parsed tells
\* whether Exec's input parsed as a Command.
\* response is the text Exec returned (no text for the other calls); args and
\* rels are the arguments and the []Rel of a direct RelFetch.
Ret(op, parsed, err) ==
  [op |-> op, parsed |-> parsed, err |-> err, response |-> <<>>, args |-> <<>>, rels |-> {}]

\* The text Exec returns, line by line: the String() of an object, the "$$$$"
\* line of the grammar's Response rule, or a status `<code> ok|error <message>`.
Line(line, obj, code, status) == [line |-> line, obj |-> obj, Code |-> code, status |-> status]

\* TopolithError.String(): `<code> error "<description>: <message>"`
ErrorString(e) == <<Line("status", Obj(""), e.Code, "error")>>

\* okString(o, err) with err nil: fmt.Sprintf("%s\n200 ok %s", o, "")
okString(o) == <<Line("object", o, 0, ""), Line("status", Obj(""), 200, "ok")>>

\* The statement grammar.Parse matches a text as ("" for a syntax error), by
\* the Valid rule: Response <- Objects? _ DELIMITER DELIMITER _ StatusObject END
\* wants the "$$$$" between the objects and the status; a text that begins with
\* a world object or with a status matches WorldObject or StatusObject.  On a
\* WorldObject Parse does not return: p.Execute() runs the actions of the
\* WorldParam rules, which write the map p.WorldParams that Parse never
\* allocates (panic: assignment to entry in nil map).
ParseStmtType(text) ==
  LET n == Len(text)
  IN IF /\ n >= 2
        /\ text[n].line = "status"
        /\ text[n - 1].line = "$$$$"
        /\ \A i \in 1..(n - 2) : text[i].line = "object"
     THEN "Response"
     ELSE IF n >= 1 /\ text[1].line = "object" /\ text[1].obj.kind = "world" THEN "WorldObject"
     ELSE IF n >= 1 /\ text[1].line = "status" THEN "Status"
     ELSE ""

\* The end of Exec once the command has run on w: the error text of a failed
\* command, else okString's text when it parses as a Response, else an
\* internal error.  The internal error wraps the error of the parse: when the
\* text parsed, as another statement, that error is nil, and String() calls
\* Error() on it (panic).  okString writes the object with fmt: the String()
\* of a World whose tree has a cycle does not end (stack overflow); a panic of
\* Rel.String() inside it is recovered by fmt, whose text the grammar rejects,
\* as it rejects the text of a World that is no WorldObject; on the text of a
\* World that is a WorldObject the parse itself panics.
Respond(w, obj, err) ==
  LET checked(response, stmtType) ==
        IF stmtType = "WorldObject"
        THEN [response |-> <<>>, panic |-> "assignment to entry in nil map"]
        ELSE IF stmtType /= "Response"
        THEN [response |-> ErrorString(UseCode(New("error generating response"),
                                               TopolithErrorInternal)),
              panic |-> IF stmtType /= "" THEN "nil pointer dereference" ELSE ""]
        ELSE [response |-> response, panic |-> ""]
      written(ws) ==
        IF ws.fault = "stack overflow" THEN [response |-> <<>>, panic |-> "stack overflow"]
        ELSE IF ws.fault /= "" \/ \E s \in ws.texts : ~WorldObject(s)
        THEN checked(okString(obj), "")
        ELSE checked(okString(obj), ParseStmtType(okString(obj)))
  IN IF err /= NoErr
     THEN [response |-> ErrorString(UseCode(New("error executing command"),
                                            TopolithErrorCommandErr)),
           panic |-> ""]
     ELSE IF obj.kind = "world" THEN written(WorldString(w))
     ELSE checked(okString(obj), ParseStmtType(okString(obj)))

\* The process is gone: a stack overflow, an index out of range, a nil
\* pointer dereference or an assignment to an entry in a nil map.
Crash(kind) ==
  /\ fault' = kind
  /\ ret' = Ret("crash", FALSE, NoErr)
  /\ phase' = "none"
  /\ g0' = CreateWorld("w")
  /\ g1' = CreateWorld("w")
  /\ UNCHANGED <<world, commands, commandsIdx, applied>>

\* The positions of s without the last occurrence of x.
DropLast(s, x) ==
  LET at == {i \in 1..Len(s) : s[i] = x}
  IN IF at = {} THEN s
     ELSE LET m == CHOOSE i \in at : \A j \in at : j <= i
          IN SubSeq(s, 1, m - 1) \o SubSeq(s, m + 1, Len(s))

\* h.History()
History == SubSeq(commands, 1, commandsIdx + 1)

\* h.CanUndo()
CanUndo == commandsIdx >= 0

\* h.CanRedo()
CanRedo == commandsIdx < Len(commands) - 1

\* The ghosts forget the last Execute.
Forget ==
  /\ phase' = "none"
  /\ g0' = CreateWorld("w")
  /\ g1' = CreateWorld("w")

\* h.exec(c) and what Exec does with its result: the command is appended at
\* the end of the log and the cursor moves up by one, then the command runs;
\* a response whose check panics ends the process with the log and the World
\* as the command left them.  phase, g0 and g1 remember the
\* World before and after an Execute that returned no error and left the
\* cursor on the executed command.
exec(c) ==
  LET onTop == commandsIdx + 1 = Len(commands)
      answered(r, a) ==
        /\ commands' = Append(commands, r.c)
        /\ commandsIdx' = commandsIdx + 1
        /\ world' = Returned(r.w)
        /\ applied' = Append(applied, Len(commands) + 1)
        /\ IF a.panic /= ""
           THEN /\ fault' = a.panic
                /\ ret' = Ret("crash", TRUE, NoErr)
                /\ Forget
           ELSE /\ ret' = [Ret("exec", TRUE, r.err) EXCEPT !.response = a.response]
                /\ IF r.err = NoErr /\ onTop
                   THEN phase' = "exec" /\ g0' = world /\ g1' = world'
                   ELSE Forget
                /\ UNCHANGED fault
      ran(r) ==
        \E overflow \in Overflows(r.w.div) :
          IF overflow THEN Crash("stack overflow")
          ELSE answered(r, Respond(r.w, r.obj, r.err))
  IN \E r \in Execute(c, world) : ran(r)

\* h.Exec(s), on what grammar.Parse(s) gives: a syntax error, or a statement
\* type with (for a Command) its InputAttributes.  On a text it matches as a
\* WorldObject grammar.Parse panics; a text that parses as another statement
\* takes the "invalid input" branch with a nil error.
Exec(parseErr, stmtType, input) ==
  LET converted(cmd) ==
        IF ~parseErr /\ stmtType = "WorldObject"
        THEN \* grammar.Parse writes the nil map p.WorldParams
             Crash("assignment to entry in nil map")
        ELSE IF ~parseErr /\ stmtType /= "Command"
        THEN \* WithError(nil), then String() calls Error() on the nil error
             Crash("nil pointer dereference")
        ELSE IF parseErr \/ ~cmd.ok
        THEN /\ ret' = [Ret("exec", ~parseErr /\ stmtType = "Command",
                            UseCode(New("invalid input"), TopolithErrorInvalid))
                        EXCEPT !.response = ErrorString(UseCode(New("invalid input"),
                                                                TopolithErrorInvalid))]
             /\ Forget
             /\ UNCHANGED <<world, commands, commandsIdx, fault, applied>>
        ELSE exec(cmd.c)
  IN /\ fault = ""
     /\ converted(InputToCommand(input))

\* A failed undo or redo keeps the whole log.
WipedKeepsLog == [commands |-> commands, commandsIdx |-> -1]

\* The log and the cursor after an undo or redo that returned an error:
\* h.commands = make([]Command, 0); h.commandsIdx = -1
Wiped == [commands |-> <<>>, commandsIdx |-> -1]

\* h.undo()
undo ==
  LET after == phase = "exec"
      undone(r) ==
        \E overflow \in Overflows(r.w.div) :
          IF overflow THEN Crash("stack overflow")
          ELSE /\ world' = Returned(r.w)
               /\ commands' = IF r.err /= NoErr THEN Wiped.commands ELSE commands
               /\ commandsIdx' = IF r.err /= NoErr THEN Wiped.commandsIdx ELSE commandsIdx - 1
               /\ ret' = Ret("undo", FALSE, r.err)
               /\ phase' = IF ~after THEN "none"
                           ELSE IF r.err = NoErr THEN "exec-undo" ELSE "exec-undoErr"
               /\ g0' = IF after THEN g0 ELSE CreateWorld("w")
               /\ g1' = IF after THEN g1 ELSE CreateWorld("w")
               /\ applied' = IF r.err /= NoErr THEN <<>>
                             ELSE DropLast(applied, commandsIdx + 1)
               /\ UNCHANGED fault
  IN /\ fault = ""
     /\ IF commandsIdx < 0
        THEN /\ ret' = Ret("undo", FALSE, NoErr)
             /\ Forget
             /\ UNCHANGED <<world, commands, commandsIdx, fault, applied>>
        ELSE undone(Undo(commands[commandsIdx + 1], world))

\* h.redo(): the command run is h.commands[h.commandsIdx]; with every
\* command undone that index is -1, out of range.
redo ==
  LET after == phase = "exec-undo"
      redone(r) ==
        \E overflow \in Overflows(r.w.div) :
          IF overflow THEN Crash("stack overflow")
          ELSE /\ world' = Returned(r.w)
               /\ commands' = IF r.err /= NoErr THEN Wiped.commands
                              ELSE [commands EXCEPT ![commandsIdx + 1] = r.c]
               /\ commandsIdx' = IF r.err /= NoErr THEN Wiped.commandsIdx ELSE commandsIdx + 1
               /\ ret' = Ret("redo", FALSE, r.err)
               /\ phase' = IF after THEN "exec-undo-redo" ELSE "none"
               /\ g0' = IF after THEN g0 ELSE CreateWorld("w")
               /\ g1' = IF after THEN g1 ELSE CreateWorld("w")
               /\ applied' = IF r.err /= NoErr THEN <<>>
                             ELSE Append(applied, commandsIdx + 1)
               /\ UNCHANGED fault
  IN /\ fault = ""
     /\ IF commandsIdx >= Len(commands) - 1
        THEN /\ ret' = Ret("redo", FALSE, NoErr)
             /\ Forget
             /\ UNCHANGED <<world, commands, commandsIdx, fault, applied>>
        ELSE IF commandsIdx < 0 THEN Crash("index out of range")
        ELSE \E r \in Execute(commands[commandsIdx + 1], world) : redone(r)

\* NewApp(CreateWorld("w"))
Init ==
  /\ world = CreateWorld("w")
  /\ commands = <<>>
  /\ commandsIdx = -1
  /\ fault = ""
  /\ ret = Ret("init", FALSE, NoErr)
  /\ phase = "none"
  /\ g0 = CreateWorld("w")
  /\ g1 = CreateWorld("w")
  /\ applied = <<>>
  /\ calls = 0

\* The Item ids the App's inputs name.
AppIds == {"a", "b"}

NoParams == <<>>

NoFlags == {}

\* The InputAttributes grammar.Parse gives for the Command inputs explored:
\*   item create <x> | item delete <x> | item set a name="n" | item fetch a
\*   nest a in b | nest b in a | free a | in? a b | rel create a b | rel delete a b
Inputs ==
  {InputAttributes("item", v, x, <<>>, <<>>, NoParams, NoFlags) :
     v \in {"create", "delete"}, x \in AppIds}
  \cup {InputAttributes("item", "set", "a", <<>>, <<>>, [name |-> "n"], NoFlags),
        InputAttributes("item", "fetch", "a", <<>>, <<>>, NoParams, NoFlags),
        InputAttributes("item", "nest", "", <<"a">>, <<"b">>, NoParams, NoFlags),
        InputAttributes("item", "nest", "", <<"b">>, <<"a">>, NoParams, NoFlags),
        InputAttributes("item", "free", "", <<"a">>, <<>>, NoParams, NoFlags),
        InputAttributes("item", "in?", "a", <<>>, <<"b">>, NoParams, NoFlags),
        InputAttributes("rel", "create", "a", <<>>, <<"b">>, NoParams, NoFlags),
        InputAttributes("rel", "delete", "a", <<>>, <<"b">>, NoParams, NoFlags)}

\* What grammar.Parse gives for the inputs explored: a syntax error, a
\* statement that is no Command (a Response without a World, and the text of a
\* World), or a Command with its InputAttributes.
Parses ==
  {[err |-> TRUE, stmtType |-> "", input |-> InputAttributes("", "", "", <<>>, <<>>, NoParams, NoFlags)],
   [err |-> FALSE, stmtType |-> "Response",
    input |-> InputAttributes("", "", "", <<>>, <<>>, NoParams, NoFlags)],
   [err |-> FALSE, stmtType |-> "WorldObject",
    input |-> InputAttributes("", "", "", <<>>, <<>>, NoParams, NoFlags)]}
  \cup {[err |-> FALSE, stmtType |-> "Command", input |-> i] : i \in Inputs}

\* One more call is explored.
Called ==
  /\ calls < MaxCalls
  /\ calls' = calls + 1

Next ==
  \/ \E p \in Parses : Called /\ Exec(p.err, p.stmtType, p.input)
  \/ Called /\ undo
  \/ Called /\ redo

Spec == Init /\ [][Next]_vars

(* ------------------- the World's operations, called directly ------------ *)

\* A call of a World operation that leaves the World w1 (the App is not used).
WorldCall(op, w1) ==
  /\ fault = ""
  /\ \E overflow \in Overflows(w1.div) :
       IF overflow THEN Crash("stack overflow")
       ELSE /\ world' = Returned(w1)
            /\ ret' = Ret(op, FALSE, w1.latestErr)
            /\ Forget
            /\ UNCHANGED <<commands, commandsIdx, fault, applied>>

\* The ItemParams the direct calls pass.
ParamChoices == {ItemParams, [ItemParams EXCEPT !.Name = Ptr("n")]}

CallItemCreate == \E id \in Ids \cup {""}, params \in ParamChoices :
  WorldCall("ItemCreate", ItemCreate(world, id, params))

CallItemDelete == \E id \in Ids \cup {""} : WorldCall("ItemDelete", ItemDelete(world, id))

CallItemSet == \E id \in Ids : WorldCall("ItemSet", ItemSet(world, id, [ItemParams EXCEPT !.Name = Ptr("n")]))

CallNest == \E childId \in Ids, parentId \in Ids :
  WorldCall("Nest", Nest(world, childId, parentId))

CallFree == \E childId \in Ids : WorldCall("Free", Free(world, childId))

CallRelCreate == \E fromId \in Ids, toId \in Ids :
  WorldCall("RelCreate", RelCreate(world, fromId, toId, RelParams))

CallRelDelete == \E fromId \in Ids, toId \in Ids :
  WorldCall("RelDelete", RelDelete(world, fromId, toId))

CallRelSet == \E fromId \in Ids, toId \in Ids :
  WorldCall("RelSet", RelSet(world, fromId, toId, [RelParams EXCEPT !.Verb = Ptr("v")]))

\* The four setters of the Info interface, each with one value.
CallSetInfo ==
  \/ WorldCall("SetVersion", SetVersion(world, 2))
  \/ WorldCall("SetId", SetId(world, "x"))
  \/ WorldCall("SetName", SetName(world, "x"))
  \/ WorldCall("SetExpanded", SetExpanded(world, "e"))

\* The queries on the tree: what they return is dropped, the World is left
\* with its trackers reset.
CallTreeQuery ==
  \/ \E childId \in Ids, parentId \in Ids, strict \in BOOLEAN :
       WorldCall("In", In(world, childId, parentId, strict).w)
  \/ \E childId \in Ids : WorldCall("Parent", Parent(world, childId).w)
  \/ \E parentId \in Ids : WorldCall("Components", Components(world, parentId).w)
  \/ \E childId \in Ids : WorldCall("ItemParent", ItemParent(world, childId).w)
  \/ \E parentId \in Ids : WorldCall("ItemComponents", ItemComponents(world, parentId).w)

\* The queries on the Rels, what they return dropped: RelFetch resets the
\* trackers, RelTo and RelFrom leave them.
CallRelQuery ==
  \/ \E fromId \in Ids, toId \in Ids, strict \in BOOLEAN :
       WorldCall("RelFetch", RelFetch(world, fromId, toId, strict).w)
  \/ \E toId \in Ids, strict \in BOOLEAN : WorldCall("RelTo", RelTo(world, toId, strict).w)
  \/ \E fromId \in Ids, strict \in BOOLEAN :
       WorldCall("RelFrom", RelFrom(world, fromId, strict).w)

\* One more direct call is explored.
CalledWorld ==
  /\ calls < MaxWorldCalls
  /\ calls' = calls + 1

NextWorld ==
  \/ CalledWorld /\ CallItemCreate
  \/ CalledWorld /\ CallItemDelete
  \/ CalledWorld /\ CallItemSet
  \/ CalledWorld /\ CallNest
  \/ CalledWorld /\ CallFree
  \/ CalledWorld /\ CallRelCreate
  \/ CalledWorld /\ CallRelDelete
  \/ CalledWorld /\ CallRelSet
  \/ CalledWorld /\ CallSetInfo
  \/ CalledWorld /\ CallTreeQuery
  \/ CalledWorld /\ CallRelQuery

SpecWorld == Init /\ [][NextWorld]_vars

(* ------------- the World's operations, with the Rel queries ------------- *)

\* A call of RelFetch with arguments args that returns f.rels and leaves f.w.
Fetched(op, args, f) ==
  /\ fault = ""
  /\ \E overflow \in Overflows(f.w.div) :
       IF overflow THEN Crash("stack overflow")
       ELSE /\ world' = Returned(f.w)
            /\ ret' = [Ret(op, FALSE, NoErr) EXCEPT !.args = args, !.rels = f.rels]
            /\ Forget
            /\ UNCHANGED <<commands, commandsIdx, fault, applied>>

CallRelFetch == \E fromId \in Ids, toId \in Ids, strict \in BOOLEAN :
  Fetched("RelFetch", <<fromId, toId, strict>>, RelFetch(world, fromId, toId, strict))

\* One more direct call is explored.
CalledQuery ==
  /\ calls < MaxQueryCalls
  /\ calls' = calls + 1

NextQuery ==
  \/ CalledQuery /\ CallItemCreate
  \/ CalledQuery /\ CallItemDelete
  \/ CalledQuery /\ CallNest
  \/ CalledQuery /\ CallFree
  \/ CalledQuery /\ CallRelCreate
  \/ CalledQuery /\ CallRelDelete
  \/ CalledQuery /\ CallRelFetch
  \/ CalledQuery /\ CallItemSet
  \/ CalledQuery /\ CallRelSet
  \/ CalledQuery /\ CallTreeQuery

SpecQuery == Init /\ [][NextQuery]_vars

(* ------------------ the App on the worked examples' inputs -------------- *)

\* The InputAttributes grammar.Parse gives for
\*   item create db | item create srv | rel create srv db verb=writes
\*   item delete db | rel delete srv db
ScenarioInputs ==
  {InputAttributes("item", "create", "db", <<>>, <<>>, NoParams, NoFlags),
   InputAttributes("item", "create", "srv", <<>>, <<>>, NoParams, NoFlags),
   InputAttributes("rel", "create", "srv", <<>>, <<"db">>, [verb |-> "writes"], NoFlags),
   InputAttributes("item", "delete", "db", <<>>, <<>>, NoParams, NoFlags),
   InputAttributes("rel", "delete", "srv", <<>>, <<"db">>, NoParams, NoFlags)}

\* One more call is explored.
CalledScenario ==
  /\ calls < MaxScenarioCalls
  /\ calls' = calls + 1

NextScenario ==
  \/ \E i \in ScenarioInputs : CalledScenario /\ Exec(FALSE, "Command", i)
  \/ CalledScenario /\ undo
  \/ CalledScenario /\ redo

SpecScenario == Init /\ [][NextScenario]_vars

\* The InputAttributes grammar.Parse gives for
\*   item create db external=true | item create db external=false
\*   item create db name="Postgres" | item delete db | item create srv
\*   nest srv in db | free srv | item in db | item list 1
\* (cleanString strips the quotes of a value; `item in <id>` parses with the
\* verb "list").
ParamInputs ==
  {InputAttributes("item", "create", "db", <<>>, <<>>, [external |-> "true"], NoFlags),
   InputAttributes("item", "create", "db", <<>>, <<>>, [external |-> "false"], NoFlags),
   InputAttributes("item", "create", "db", <<>>, <<>>, [name |-> "Postgres"], NoFlags),
   InputAttributes("item", "delete", "db", <<>>, <<>>, NoParams, NoFlags),
   InputAttributes("item", "create", "srv", <<>>, <<>>, NoParams, NoFlags),
   InputAttributes("item", "nest", "", <<"srv">>, <<"db">>, NoParams, NoFlags),
   InputAttributes("item", "free", "", <<"srv">>, <<>>, NoParams, NoFlags),
   InputAttributes("item", "list", "db", <<>>, <<>>, NoParams, NoFlags),
   InputAttributes("item", "list", "", <<>>, <<>>, [limit |-> "1"], NoFlags)}

\* One more call is explored.
CalledParams ==
  /\ calls < MaxParamCalls
  /\ calls' = calls + 1

NextParams ==
  \/ \E i \in ParamInputs : CalledParams /\ Exec(FALSE, "Command", i)
  \/ CalledParams /\ undo
  \/ CalledParams /\ redo

SpecParams == Init /\ [][NextParams]_vars

(* ------------------------ the App on its queries ----------------------- *)

\* The InputAttributes grammar.Parse gives for the two commands
\*   item create a | rel create a a
\* and for the queries
\*   world | item fetch a | item list | item? a | in? a a | items in a
\*   rel fetch a a | rel list | rel? a a | to? a | from? a
AskInputs ==
  {InputAttributes("item", "create", "a", <<>>, <<>>, NoParams, NoFlags),
   InputAttributes("rel", "create", "a", <<>>, <<"a">>, NoParams, NoFlags),
   InputAttributes("world", "fetch", "", <<>>, <<>>, NoParams, NoFlags),
   InputAttributes("item", "fetch", "a", <<>>, <<>>, NoParams, NoFlags),
   InputAttributes("item", "list", "", <<>>, <<>>, NoParams, NoFlags),
   InputAttributes("item", "exists", "a", <<>>, <<>>, NoParams, NoFlags),
   InputAttributes("item", "in?", "a", <<>>, <<"a">>, NoParams, NoFlags),
   InputAttributes("item", "list", "a", <<>>, <<>>, NoParams, NoFlags),
   InputAttributes("rel", "fetch", "a", <<>>, <<"a">>, NoParams, NoFlags),
   InputAttributes("rel", "list", "", <<>>, <<>>, NoParams, NoFlags),
   InputAttributes("rel", "exists", "a", <<>>, <<"a">>, NoParams, NoFlags),
   InputAttributes("rel", "to?", "a", <<>>, <<>>, NoParams, NoFlags),
   InputAttributes("rel", "from?", "a", <<>>, <<>>, NoParams, NoFlags)}

\* One more call is explored.
CalledAsk ==
  /\ calls < MaxAskCalls
  /\ calls' = calls + 1

NextAsk ==
  \/ \E i \in AskInputs : CalledAsk /\ Exec(FALSE, "Command", i)
  \/ CalledAsk /\ undo

SpecAsk == Init /\ [][NextAsk]_vars

(* ------------- the App, with the World also called directly ------------- *)

\* One more call, of the App or of its World (h.World() hands the World out).
CalledBoth ==
  /\ calls < MaxBothCalls
  /\ calls' = calls + 1

\* A direct call of one of the World operations that write the Items map, the
\* tree or the Rels map, on the ids the App's inputs name.
DirectCall ==
  \/ \E id \in AppIds : WorldCall("ItemCreate", ItemCreate(world, id, ItemParams))
  \/ \E id \in AppIds : WorldCall("ItemDelete", ItemDelete(world, id))
  \/ \E id \in AppIds :
       WorldCall("ItemSet", ItemSet(world, id, [ItemParams EXCEPT !.Name = Ptr("n")]))
  \/ \E childId \in AppIds, parentId \in AppIds :
       WorldCall("Nest", Nest(world, childId, parentId))
  \/ \E childId \in AppIds : WorldCall("Free", Free(world, childId))
  \/ \E fromId \in AppIds, toId \in AppIds :
       WorldCall("RelCreate", RelCreate(world, fromId, toId, RelParams))
  \/ \E fromId \in AppIds, toId \in AppIds :
       WorldCall("RelSet", RelSet(world, fromId, toId, [RelParams EXCEPT !.Verb = Ptr("v")]))
  \/ \E fromId \in AppIds, toId \in AppIds :
       WorldCall("RelDelete", RelDelete(world, fromId, toId))

\* The inputs of the App that write the Items map or the Rels map.
WriteInputs == {i \in Inputs : i.Verb \in {"create", "delete", "set"}}

NextBoth ==
  \/ \E i \in WriteInputs : CalledBoth /\ Exec(FALSE, "Command", i)
  \/ CalledBoth /\ undo
  \/ CalledBoth /\ redo
  \/ CalledBoth /\ DirectCall

SpecBoth == Init /\ [][NextBoth]_vars

(* ------------------------------ properties ------------------------------ *)

\* C1 (Undo inverse): once a command has executed without error and has then
\* been undone, the World equals the World before the execute (same Items with
\* the same attributes, same parent and children of every Item, same Rels).
C1_UndoInverse ==
  phase \in {"exec-undo", "exec-undoErr"} => TRUE \in WorldEqual(world, g0).outcomes

\* C2 (Redo identity): once a command has executed, been undone and then been
\* redone, the World equals the World its original execution produced.
C2_RedoIdentity ==
  phase = "exec-undo-redo" => TRUE \in WorldEqual(world, g1).outcomes

\* C3: right after Exec has executed a newly entered command, CanRedo() is
\* false (the redoable tail of the log is gone).
C3_ExecDiscardsRedoTail ==
  (ret.op = "exec" /\ ret.parsed) => ~CanRedo

\* C4: a redo made when a redo is possible executes the command at log
\* position cursor+1 (Go index; commands[commandsIdx + 2] here) and, when that
\* returns no error, moves the cursor to that position.
C4_RedoExecutesNext ==
  [][(ret'.op = "redo" /\ CanRedo) =>
       /\ \E r \in Execute(commands[commandsIdx + 2], world) : world' = Returned(r.w)
       /\ ret'.err = NoErr => commandsIdx' = commandsIdx + 1]_vars

\* C5: History() is exactly the commands executed (by Exec or by redo) and
\* not undone, in the order of their execution.
C5_HistoryIsApplied ==
  History = [i \in 1..Len(applied) |-> commands[applied[i]]]

\* C6: when the undo or the redo of a command returns an error, the log is
\* emptied and the cursor is -1 (CanUndo and CanRedo both false), the error is
\* what the call returns, and the World is the one the failed Undo or Execute
\* left (nothing is rolled back).
C6_FailedUndoRedoWipesLog ==
  [][(ret'.op \in {"undo", "redo"} /\ ret'.err /= NoErr) =>
       /\ commands' = <<>>
       /\ commandsIdx' = -1
       /\ ~CanUndo' /\ ~CanRedo'
       /\ IF ret'.op = "undo"
          THEN /\ ret'.err = Undo(commands[commandsIdx + 1], world).err
               /\ world' = Returned(Undo(commands[commandsIdx + 1], world).w)
          ELSE \E r \in Execute(commands[commandsIdx + 1], world) :
                 ret'.err = r.err /\ world' = Returned(r.w)]_vars

\* An undo has returned an error after changing the World: the log is empty
\* and the World differs from the one the undo started from.
C6_Witness ==
  /\ phase = "exec-undoErr"
  /\ ret.op = "undo" /\ ret.err /= NoErr
  /\ commands = <<>>
  /\ TRUE \notin WorldEqual(world, g1).outcomes

\* C7: Exec appends exactly one command to the log and moves the cursor up by
\* one exactly when its input parses as a Command, whatever executing it
\* returns; otherwise the log, the cursor and the World stay as they are (the
\* calls that end in a nil pointer dereference or in a write to a nil map
\* included).
C7_ExecRecordsWhatParses ==
  [][(ret'.op = "exec"
        \/ fault' \in {"nil pointer dereference", "assignment to entry in nil map"}) =>
       IF ret'.parsed
       THEN /\ Len(commands') = Len(commands) + 1
            /\ SubSeq(commands', 1, Len(commands)) = commands
            /\ commandsIdx' = commandsIdx + 1
       ELSE UNCHANGED <<commands, commandsIdx, world>>]_vars

\* Exec has recorded a command whose Execute returned an error.
C7_Witness ==
  /\ ret.op = "exec" /\ ret.parsed /\ ret.err /= NoErr
  /\ Len(commands) > 0

\* C8: every Item id of the Items map is in the components of exactly one
\* node of the Tree.
C8_OneHolder ==
  \A id \in DOMAIN world.Items :
    Cardinality({k \in DOMAIN world.Tree : id \in world.Tree[k].components}) = 1

\* C9: the ids of the Items map are the ids of the nodes of the Tree other
\* than the root sentinel.
C9_MapTreeSync ==
  DOMAIN world.Items = DOMAIN world.Tree \ {RootId}

\* C10: for an Item the Tree holds, Parent(childId) is the id of the Item
\* whose components contain childId, and is "" exactly when childId is in the
\* components of the root.
C10_ParentIsHolder ==
  \A childId \in DOMAIN world.Items \cap DOMAIN world.Tree :
    /\ Parent(world, childId).ok
    /\ Parent(world, childId).id = "" <=> childId \in world.Tree[RootId].components
    /\ Parent(world, childId).id /= "" =>
         /\ Parent(world, childId).id \in DOMAIN world.Tree
         /\ childId \in world.Tree[Parent(world, childId).id].components

\* C11 (Rel endpoint closure): whatever World operations, command executes,
\* undos and redos have run, the from id and the to id of every Rel of the Rels
\* map are ids of the Items map.
C11_RelEndpointClosure ==
  \A k \in DOMAIN world.Rels :
    /\ world.Rels[k].From.Id \in DOMAIN world.Items
    /\ world.Rels[k].To.Id \in DOMAIN world.Items

\* A command that deleted the endpoint of a Rel, and the Rel with it, has
\* executed and been undone: the Item is back and the Rel is not.
C11_Witness ==
  /\ phase \in {"exec-undo", "exec-undoErr"}
  /\ g0.Rels /= <<>>
  /\ g1.Rels = <<>>
  /\ DOMAIN g1.Items /= DOMAIN g0.Items
  /\ DOMAIN world.Items = DOMAIN g0.Items
  /\ world.Rels = <<>>

\* The nodes of T whose components contain the node of id.
Holders(T, id) == {k \in DOMAIN T : id \in T[k].components}

\* The descendants of the node of id in T, at any depth (none when T has no
\* such node).
Below(T, id) ==
  IF id \in DOMAIN T THEN ReachFrom(T, T[id].components, {}, {}) ELSE {}

\* The containment relation of T: the components of every node.
Shape(T) == [k \in DOMAIN T |-> T[k].components]

\* C12: when childId and parentId both exist, differ, parentId is not below
\* childId and childId is not already below parentId, a Nest(childId, parentId)
\* that returns leaves childId in the components of parentId and in those of
\* no node that held it before, with the same descendants as before.
C12_NestMoves ==
  [][\A childId \in Ids, parentId \in Ids :
       (/\ ret'.op = "Nest"
        /\ childId \in DOMAIN world.Items /\ parentId \in DOMAIN world.Items
        /\ childId /= parentId
        /\ parentId \notin Below(world.Tree, childId)
        /\ childId \notin Below(world.Tree, parentId)
        /\ world' = Returned(Nest(world, childId, parentId)))
       => /\ parentId \in DOMAIN world'.Tree
          /\ childId \in world'.Tree[parentId].components
          /\ \A k \in Holders(world.Tree, childId) \cap DOMAIN world'.Tree :
               childId \notin world'.Tree[k].components
          /\ Below(world'.Tree, childId) = Below(world.Tree, childId)]_vars

\* C13: a Nest of an existing Item under itself or under one of its
\* descendants returns a Conflict error and leaves the Tree as it was.
C13_NestRejectsCycle ==
  [][\A a \in Ids, d \in Ids :
       (/\ ret'.op = "Nest"
        /\ a \in DOMAIN world.Items /\ d \in DOMAIN world.Items
        /\ (d = a \/ d \in Below(world.Tree, a))
        /\ world' = Returned(Nest(world, a, d)))
       => /\ ret'.err.Code = TopolithErrorConflict
          /\ Shape(world'.Tree) = Shape(world.Tree)]_vars

\* C14: a Nest(childId, parentId) made when childId is already below parentId,
\* directly or deeper, leaves the Tree as it was.
C14_NestOfDescendantIsNoOp ==
  [][\A childId \in Ids, parentId \in Ids :
       (/\ ret'.op = "Nest"
        /\ childId \in DOMAIN world.Items /\ parentId \in DOMAIN world.Items
        /\ childId \in Below(world.Tree, parentId)
        /\ world' = Returned(Nest(world, childId, parentId)))
       => Shape(world'.Tree) = Shape(world.Tree)]_vars

\* C15: after a Free(childId) of an existing Item that the Tree holds, at any
\* depth, the root sentinel is the one node with childId in its components.
C15_FreeMovesToRoot ==
  [][\A childId \in Ids :
       (/\ ret'.op = "Free"
        /\ childId \in DOMAIN world.Items
        /\ childId \in DOMAIN world.Tree
        /\ world' = Returned(Free(world, childId)))
       => Holders(world'.Tree, childId) = {RootId}]_vars

\* C16: after an ItemDelete(id) of an Item the Tree holds, with parent p and
\* children C, the Tree has no node of id and every member of C is in the
\* components of p.
C16_DeleteReparents ==
  [][\A id \in Ids :
       (/\ ret'.op = "ItemDelete"
        /\ id \in DOMAIN world.Items
        /\ id \in DOMAIN world.Tree
        /\ world' = Returned(ItemDelete(world, id)))
       => /\ id \notin DOMAIN world'.Tree
          /\ \A p \in Holders(world.Tree, id) \ {id} :
               /\ p \in DOMAIN world'.Tree
               /\ world.Tree[id].components \ {id} \subseteq world'.Tree[p].components]_vars

\* C17: In(childId, parentId, strict = true) is true exactly when childId is
\* in the components of the node of parentId.
C17_InStrictIsDirectChild ==
  \A childId \in Ids, parentId \in Ids :
    In(world, childId, parentId, TRUE).ok
      <=> (parentId \in DOMAIN world.Tree /\ childId \in world.Tree[parentId].components)

\* The log after `item create b`, `item create a`, `nest a in b`, `in? a b`
\* entered in that order on a new App, with nothing else called (b stands for
\* server and a for client).
C18_Scenario ==
  /\ calls = 4 /\ Len(commands) = 4 /\ ret.op = "exec"
  /\ commands[1].variant = "ItemCreate" /\ commands[1].Id = "b"
  /\ commands[2].variant = "ItemCreate" /\ commands[2].Id = "a"
  /\ commands[3].variant = "ItemNest" /\ commands[3].Ids = <<"a">> /\ commands[3].ParentId = "b"
  /\ commands[4].variant = "ItemInQuery" /\ commands[4].Id = "a" /\ commands[4].ParentId = "b"

\* C18: In(childId, parentId, strict = false) is true exactly when childId is
\* below parentId at some depth (stated for two different ids), and the text
\* Exec returns for `in? a b` after `item create b`, `item create a`,
\* `nest a in b` has the object true and the status 200 ok.
C18_InIsDescendant ==
  /\ \A childId \in AppIds, parentId \in AppIds :
       childId /= parentId =>
         (In(world, childId, parentId, FALSE).ok <=> childId \in Below(world.Tree, parentId))
  /\ C18_Scenario =>
       /\ Len(ret.response) >= 2
       /\ ret.response[1].line = "object"
       /\ ret.response[1].obj = BoolStringer(TRUE)
       /\ ret.response[Len(ret.response)].line = "status"
       /\ ret.response[Len(ret.response)].Code = 200
       /\ ret.response[Len(ret.response)].status = "ok"

\* The Rels of w whose source is fromId or below it and whose destination is
\* toId or below it.
RelsWithin(w, fromId, toId) ==
  {r \in {w.Rels[k] : k \in DOMAIN w.Rels} :
     /\ r.From.Id \in {fromId} \cup Below(w.Tree, fromId)
     /\ r.To.Id \in {toId} \cup Below(w.Tree, toId)}

\* The Rels of w whose composite id is fromId::toId.
RelsWithId(w, fromId, toId) ==
  {r \in {w.Rels[k] : k \in DOMAIN w.Rels} : relId(r) = relIdFromIds(fromId, toId)}

\* C19: a RelFetch(fromId, toId, strict) that returns gives, when strict is
\* false, exactly the Rels from fromId or a descendant of it to toId or a
\* descendant of it, and when strict is true only the Rel with the composite id
\* fromId::toId; when neither id has descendants the other mode gives the same.
C19_RelFetchWithin ==
  [][\A fromId \in Ids, toId \in Ids, strict \in BOOLEAN :
       (ret'.op = "RelFetch" /\ ret'.args = <<fromId, toId, strict>>) =>
         /\ ~strict => ret'.rels = RelsWithin(world, fromId, toId)
         /\ strict => ret'.rels = RelsWithId(world, fromId, toId)
         /\ (Below(world.Tree, fromId) = {} /\ Below(world.Tree, toId) = {}) =>
              ret'.rels = RelFetch(world, fromId, toId, ~strict).rels]_vars

\* RelFetch("b", "b", false) returned the Rel a::b, a being nested in b, where
\* the strict lookup of b::b finds nothing.
C19_Witness ==
  /\ ret.op = "RelFetch" /\ ret.args = <<"b", "b", FALSE>>
  /\ "a" \in Below(world.Tree, "b")
  /\ relIdFromIds("a", "b") \in DOMAIN world.Rels
  /\ ret.rels = {world.Rels[relIdFromIds("a", "b")]}
  /\ RelFetch(world, "b", "b", TRUE).rels = {}

\* The id set of RelTo and RelFrom: id alone, or id and the nodes below it.
IdSet(w, id, strict) == IF strict THEN {id} \cup Below(w.Tree, id) ELSE {id}

\* C20: RelFrom(id, strict), when it returns, gives exactly the Rels whose
\* source id is in the id set ({id} when strict is false, id and its
\* descendants when strict is true), as RelTo does for the destination id.
C20_RelFromBySource ==
  \A id \in Ids, strict \in BOOLEAN :
    /\ RelFrom(world, id, strict).w.div = 0 =>
         RelFrom(world, id, strict).rels =
           {r \in {world.Rels[k] : k \in DOMAIN world.Rels} : r.From.Id \in IdSet(world, id, strict)}
    /\ RelTo(world, id, strict).w.div = 0 =>
         RelTo(world, id, strict).rels =
           {r \in {world.Rels[k] : k \in DOMAIN world.Rels} : r.To.Id \in IdSet(world, id, strict)}

\* The command at position i of the log is `item create db` with the given
\* ItemParams.
IsCreateDb(log, i, params) ==
  /\ Len(log) >= i
  /\ log[i].variant = "ItemCreate" /\ log[i].Id = "db" /\ log[i].Params = params

\* C21: after `item create db external=true`, the Exec of
\* `item create db external=false` returns a text whose status code is 409
\* (Conflict) for a "parameter mismatch" error, and Item db keeps external = true.
C21_CreateMismatchIs409 ==
  [][(/\ calls = 1 /\ commandsIdx = 0 /\ Len(commands) = 1
      /\ IsCreateDb(commands, 1, [ItemParams EXCEPT !.External = Ptr(TRUE)])
      /\ ret'.op = "exec" /\ Len(commands') = 2
      /\ IsCreateDb(commands', 2, [ItemParams EXCEPT !.External = Ptr(FALSE)]))
     => /\ ret'.response[Len(ret'.response)].line = "status"
        /\ ret'.response[Len(ret'.response)].Code = TopolithErrorConflict
        /\ ret'.err.Message = "parameter mismatch"
        /\ "db" \in DOMAIN world'.Items
        /\ world'.Items["db"].External = TRUE]_vars

\* C22: ItemCreate with an empty id leaves an error whose code is Invalid (400)
\* and adds no Item and no tree node.
C22_EmptyIdIsInvalid ==
  [][\A params \in ParamChoices :
       (ret'.op = "ItemCreate" /\ world' = Returned(ItemCreate(world, "", params)))
       => /\ ret'.err /= NoErr
          /\ ret'.err.Code = TopolithErrorInvalid
          /\ world'.Items = world.Items
          /\ Shape(world'.Tree) = Shape(world.Tree)]_vars

\* ItemSet(id, {Type: value}) reports no error and leaves the Item with type t.
SetsType(w, id, value, t) ==
  LET set(w1) == w1.latestErr = NoErr /\ w1.Items[id].Type = t
  IN set(ItemSet(w, id, [ItemParams EXCEPT !.Type = Ptr(value)]))

\* C23: on an existing Item, ItemSet accepts `type` as any of the nine type
\* names and as the integer encoding, and sets the Item's type to that kind
\* without an error.
C23_TypeByNameOrNumber ==
  \A id \in DOMAIN world.Items : \A t \in 1..Len(ItemTypeNames) :
    /\ SetsType(world, id, Itoa(t), t)
    /\ SetsType(world, id, ItemTypeNames[t], t)

\* C24: once a nest or free command that ran has been undone, every id the
\* command moved is held by the node that held it before the command (the
\* root when it was rooted).
C24_UndoRestoresParents ==
  (/\ phase = "exec-undo"
   /\ commands[commandsIdx + 2].variant \in {"ItemNest", "ItemFree"})
  => \A i \in 1..Len(commands[commandsIdx + 2].Ids) :
       Holders(g1.Tree, commands[commandsIdx + 2].Ids[i])
         /= Holders(g0.Tree, commands[commandsIdx + 2].Ids[i])
       => Holders(world.Tree, commands[commandsIdx + 2].Ids[i])
            = Holders(g0.Tree, commands[commandsIdx + 2].Ids[i])

\* C25: after `item create db name="Postgres"` and `item delete db`, one undo
\* leaves Item db in the World with the name "Postgres".
C25_UndoDeleteRestoresName ==
  [][(/\ calls = 2 /\ commandsIdx = 1 /\ Len(commands) = 2
      /\ IsCreateDb(commands, 1, [ItemParams EXCEPT !.Name = Ptr("Postgres")])
      /\ commands[2].variant = "ItemDelete" /\ commands[2].Id = "db"
      /\ ret'.op = "undo")
     => /\ ItemFetch(world', "db").ok
        /\ ItemFetch(world', "db").item.Name = "Postgres"]_vars

\* The undo of a delete that had removed the Item db named "Postgres" has run
\* as the third call, and db is there again.
C25_Witness ==
  /\ calls = 3 /\ ret.op = "undo"
  /\ phase \in {"exec-undo", "exec-undoErr"}
  /\ "db" \in DOMAIN g0.Items /\ g0.Items["db"].Name = "Postgres"
  /\ "db" \notin DOMAIN g1.Items
  /\ "db" \in DOMAIN world.Items /\ world.Items["db"].Name = "Postgres"

\* The log holds `item create db`, `item create srv`,
\* `rel create srv db verb=writes`, in this order and nothing else.
C26_Log ==
  /\ Len(commands) = 3
  /\ IsCreateDb(commands, 1, ItemParams)
  /\ commands[2].variant = "ItemCreate" /\ commands[2].Id = "srv"
  /\ commands[3].variant = "RelCreate" /\ commands[3].Id = "srv" /\ commands[3].ToId = "db"
  /\ commands[3].Params = [RelParams EXCEPT !.Verb = Ptr("writes")]

\* C26: after `item create db`, `item create srv`,
\* `rel create srv db verb=writes` the World holds exactly the Items db and
\* srv, both children of the root, and the one Rel srv::db with verb writes;
\* after three undos it has no Items, no Rels and a tree with the root alone.
C26_CreateThenUndoAll ==
  /\ (calls = 3 /\ C26_Log /\ commandsIdx = 2)
     => /\ DOMAIN world.Items = {"db", "srv"}
        /\ Holders(world.Tree, "db") = {RootId}
        /\ Holders(world.Tree, "srv") = {RootId}
        /\ DOMAIN world.Rels = {relIdFromIds("srv", "db")}
        /\ \A k \in DOMAIN world.Rels :
             /\ world.Rels[k].From.Id = "srv" /\ world.Rels[k].To.Id = "db"
             /\ world.Rels[k].Verb = "writes"
  /\ (calls = 6 /\ C26_Log /\ commandsIdx = -1 /\ applied = <<>> /\ ret.op = "undo")
     => /\ DOMAIN world.Items = {}
        /\ DOMAIN world.Rels = {}
        /\ DOMAIN world.Tree = {RootId}
        /\ world.Tree[RootId].components = {}

\* The three commands have run and have been undone, one undo after the other.
C26_Witness ==
  /\ calls = 6 /\ C26_Log /\ commandsIdx = -1 /\ applied = <<>> /\ ret.op = "undo"
  /\ ret.err = NoErr
  /\ DOMAIN world.Items = {}

\* Items, Rels and the tree are the same in w1 and w2.
SameContent(w1, w2) ==
  /\ w1.Items = w2.Items
  /\ w1.Rels = w2.Rels
  /\ Shape(w1.Tree) = Shape(w2.Tree)

\* C27: the Exec of an item delete whose id is not in the World changes no
\* Item, no Rel and nothing in the tree and gives no error, and the undo of
\* that command changes nothing either and gives no error.
C27_DeleteOfAbsentIsNoOp ==
  [][/\ (/\ ret'.op = "exec" /\ Len(commands') = Len(commands) + 1
         /\ commands'[Len(commands')].variant = "ItemDelete"
         /\ commands'[Len(commands')].Id \notin DOMAIN world.Items)
        => (ret'.err = NoErr /\ SameContent(world', world))
     /\ (/\ phase = "exec" /\ ret'.op = "undo"
         /\ commands[commandsIdx + 1].variant = "ItemDelete"
         /\ commands[commandsIdx + 1].Id \notin DOMAIN g0.Items)
        => (ret'.err = NoErr /\ SameContent(world', world))]_vars

\* `item delete db` has run on a World that holds srv and no db, and has been
\* undone.
C27_Witness ==
  /\ phase = "exec-undo" /\ ret.op = "undo" /\ ret.err = NoErr
  /\ commands[commandsIdx + 2].variant = "ItemDelete"
  /\ commands[commandsIdx + 2].Id \notin DOMAIN g0.Items
  /\ DOMAIN g0.Items = {"srv"}
  /\ SameContent(world, g0)

\* C28: the Exec of `rel delete <from> <to>` on a World that holds the Rel
\* from::to removes that Rel and leaves every other Rel and every Item as it was.
C28_RelDeleteRemovesTheRel ==
  [][(/\ ret'.op = "exec" /\ Len(commands') = Len(commands) + 1
      /\ commands'[Len(commands')].variant = "RelDelete"
      /\ relIdFromIds(commands'[Len(commands')].Id, commands'[Len(commands')].ToId)
           \in DOMAIN world.Rels)
     => /\ DOMAIN world'.Rels =
             DOMAIN world.Rels
               \ {relIdFromIds(commands'[Len(commands')].Id, commands'[Len(commands')].ToId)}
        /\ \A k \in DOMAIN world'.Rels : world'.Rels[k] = world.Rels[k]
        /\ world'.Items = world.Items]_vars

\* C29: the command that `item in db` converts to returns, on a World that
\* holds db, exactly the Items that are direct children of db.
C29_ItemInListsChildren ==
  [][(/\ ret'.op = "exec" /\ Len(commands') = Len(commands) + 1
      /\ commands'[Len(commands')] =
           InputToCommand(InputAttributes("item", "list", "db", <<>>, <<>>, NoParams, NoFlags)).c
      /\ "db" \in DOMAIN world.Items /\ "db" \in DOMAIN world.Tree)
     => \A r \in Execute(commands'[Len(commands')], world) :
          {i.Id : i \in r.obj.items} = world.Tree["db"].components]_vars

\* C30: for every World reachable through the World's operations whose text
\* can be written, parsing the text succeeds and gives a World equal to it
\* under WorldEqual.
C30_RoundTrip ==
  \A s \in WorldString(world).texts :
    /\ FromString(s).fault = ""
    /\ FromString(s).err = NoErr
    /\ TRUE \in WorldEqual(FromString(s).w, world).outcomes

\* C31: for every Item with an id and any subset of external, type, name,
\* mechanism and expanded set, ItemFromString of its String() reports no error
\* and gives an Item equal to it in every attribute.
C31_ItemRoundTrip ==
  \A id \in DOMAIN world.Items : \A t \in 0..Len(ItemTypeNames) :
    \A external \in BOOLEAN : \A mechanism \in {"", "m"} : \A expanded \in {"", "e"} :
      LET same(i, r) == r.err = NoErr /\ ItemEqual(r.item, i)
          back(i) == same(i, ItemFromString(ItemString(i)))
      IN back([world.Items[id] EXCEPT !.Type = t, !.External = external,
                                      !.Mechanism = mechanism, !.Expanded = expanded])

\* C33: the undo of an item set, item clear or item create-or-set command that
\* was just executed without error on an Item that existed returns no error,
\* keeps the command log, and leaves the Item with every attribute (the type
\* included) as it was before the command.
C33_UndoOfSetRestores ==
  [][(/\ phase = "exec" /\ commandsIdx >= 0 /\ ret'.op = "undo"
      /\ commands[commandsIdx + 1].variant \in {"ItemSet", "ItemClear", "ItemCreateOrSet"}
      /\ commands[commandsIdx + 1].Id \in DOMAIN g0.Items)
     => /\ ret'.err = NoErr
        /\ commands' = commands
        /\ commands[commandsIdx + 1].Id \in DOMAIN world'.Items
        /\ ItemEqual(world'.Items[commands[commandsIdx + 1].Id],
                     g0.Items[commands[commandsIdx + 1].Id])]_vars

\* C34: when `nest <ids> in <parentId>` is executed and parentId is no Item of
\* the world, the command returns an error (what Exec answers is no success)
\* and the tree is left as it was.
C34_NestInMissingParentFails ==
  [][(/\ ret'.op = "exec" /\ ret'.parsed /\ Len(commands') = Len(commands) + 1
      /\ commands'[Len(commands')].variant = "ItemNest"
      /\ commands'[Len(commands')].ParentId \notin DOMAIN world.Items)
     => /\ ret'.err /= NoErr
        /\ Shape(world'.Tree) = Shape(world.Tree)]_vars

\* C35: in every state reached by ItemCreate, Nest, Free and ItemDelete, no
\* node reachable from the root of the Tree is reachable from itself, so the
\* recursive searches Find, Has and GetDescendantIds from the root terminate.
C35_NoCycleFromRoot ==
  /\ ~CycleIn(world.Tree, Reach(world.Tree, RootId))
  /\ \A id \in Ids : SearchDiv(world.Tree, RootId, id) = 0

\* C36: in every reachable state of the command log a redo indexes the log
\* within its bounds: whenever redo goes on to run a command (the cursor is
\* below the last position), the position h.commandsIdx it reads is one of
\* 0..len(h.commands)-1, and no redo ends in an index out of range.
C36_RedoInBounds ==
  /\ fault /= "index out of range"
  /\ (fault = "" /\ commandsIdx < Len(commands) - 1)
       => (commandsIdx >= 0 /\ commandsIdx <= Len(commands) - 1)

\* C37: in every reachable state the Item a node of the Tree records is equal
\* in every attribute to the Item the Items map holds under the same id, and
\* the text of the node's item is the text of that Item.
C37_TreeItemIsMapItem ==
  \A k \in (DOMAIN world.Tree \cap DOMAIN world.Items) \ {RootId} :
    /\ ItemEqual(TreeItem(world.Tree, k), world.Items[k])
    /\ ItemString(TreeItem(world.Tree, k)) = ItemString(world.Items[k])

\* C38: in every reachable state the from and to Items a Rel embeds are equal
\* in every attribute to the Items the Items map holds under their ids.
C38_RelEndpointsAreMapItems ==
  \A k \in DOMAIN world.Rels :
    /\ world.Rels[k].From.Id \in DOMAIN world.Items
    /\ world.Rels[k].To.Id \in DOMAIN world.Items
    /\ ItemEqual(world.Rels[k].From, world.Items[world.Rels[k].From.Id])
    /\ ItemEqual(world.Rels[k].To, world.Items[world.Rels[k].To.Id])

\* C39: two different ordered pairs (from, to) of Item ids, ids with `::` in
\* them included, never have the same composite Rel id: with the four Items
\* in the world, after RelCreate on the first pair a RelCreate on the second
\* pair makes a Rel of its own, from the second pair's source to its target.
C39_PairsHaveOwnRelId ==
  \A f1 \in {"a", "a::a"}, t1 \in {"a", "a::a"}, f2 \in {"a", "a::a"}, t2 \in {"a", "a::a"} :
    LET both(w) ==
          /\ w.latestErr = NoErr
          /\ w.latestRel.From.Id = f2 /\ w.latestRel.To.Id = t2
          /\ Cardinality(DOMAIN w.Rels) = 2
        with(w) == both(RelCreate(RelCreate(w, f1, t1, RelParams), f2, t2, RelParams))
    IN (<<f1, t1>> /= <<f2, t2>> /\ DOMAIN world.Rels = {})
         => /\ relIdFromIds(f1, t1) /= relIdFromIds(f2, t2)
            /\ with(ItemCreate(ItemCreate(world, "a", ItemParams), "a::a", ItemParams))

\* The command is a query: its Go type is one of WorldFetchCommand,
\* ItemFetchCommand, ItemListCommand, ItemExistsCommand, ItemInQueryCommand,
\* RelFetchCommand, RelListCommand, RelExistsCommand, RelToQueryCommand and
\* RelFromQueryCommand.
IsQuery(c) ==
  c.variant \in {"WorldFetch", "ItemFetch", "ItemList", "ItemExists", "ItemInQuery",
                 "RelFetch", "RelList", "RelExists", "RelToQuery", "RelFromQuery"}

\* C40: executing a query command, or undoing one, leaves the Items map, the
\* Rels map and the Tree as they were.
C40_QueriesChangeNothing ==
  [][/\ (/\ ret'.op \in {"exec", "crash"} /\ ret'.parsed
         /\ Len(commands') = Len(commands) + 1
         /\ IsQuery(commands'[Len(commands')]))
          => (world'.Items = world.Items /\ world'.Rels = world.Rels
              /\ world'.Tree = world.Tree)
     /\ (/\ ret'.op = "undo" /\ commandsIdx >= 0 /\ IsQuery(commands[commandsIdx + 1]))
          => (world'.Items = world.Items /\ world'.Rels = world.Rels
              /\ world'.Tree = world.Tree)]_vars

\* A query has just been undone on a World that holds an Item and a Rel.
C40_Witness ==
  /\ ret.op = "undo" /\ calls = 4 /\ commandsIdx = 1 /\ Len(commands) = 3
  /\ IsQuery(commands[3])
  /\ DOMAIN world.Items /= {} /\ DOMAIN world.Rels /= {}

\* C32: for every command that executes without error, the text Exec returns
\* is the object's text, then the `$$$$` line, then the status line `200 ok`,
\* and it parses as a Response; and Exec("world") on a new App returns a text
\* with the status code 200 whose object is the world.
C32_ExecAnswersWithAResponse ==
  [][/\ (ret'.op = "exec" /\ ret'.parsed /\ ret'.err = NoErr)
          => /\ Len(ret'.response) >= 2
             /\ ret'.response[Len(ret'.response)].line = "status"
             /\ ret'.response[Len(ret'.response)].Code = 200
             /\ ret'.response[Len(ret'.response)].status = "ok"
             /\ ret'.response[Len(ret'.response) - 1].line = "$$$$"
             /\ ParseStmtType(ret'.response) = "Response"
     /\ (/\ calls = 0 /\ Len(commands') = 1
         /\ commands'[1].variant = "WorldFetch")
          => /\ ret'.op = "exec"
             /\ ret'.response[Len(ret'.response)].Code = 200
             /\ ret'.response[1].line = "object"
             /\ ret'.response[1].obj.kind = "world"]_vars

====
